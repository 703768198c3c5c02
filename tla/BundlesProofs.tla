---------------------------- MODULE BundlesProofs ----------------------------
(***************************************************************************)
(* Theorems about Bundles: for any number of peers, files and calls that   *)
(* publish at the same time, whatever the order in which logs replicate    *)
(* and wherever a call is interrupted.                                     *)
(***************************************************************************)
EXTENDS Bundles, FiniteSetTheorems, TLAPS

\* The parts of the inductive invariant.

\* A log holds the parents of whatever it holds.
LogsClosed == \A p \in Peer : Log!ParentClosed(log[p])

\* Files name no parents.
FilesAreBare == \A e \in Event \ Call : parents[e] = {}

\* Before a manifest is appended nobody has it, and its parents are open.
UnpublishedIsUnseen ==
  \A c \in Call : at[c] # "done" => parents[c] = {} /\ \A p \in Peer : c \notin log[p]

\* What publishBundle has stored so far, its author holds.
FilesAreStored ==
  \A c \in Call :
    /\ todo[c] \subseteq Files[c]
    /\ at[c] = "files" => \A f \in Files[c] \ todo[c] : FileEvent(c, f) \in log[By[c]]
    /\ at[c] \in {"heads", "done"} => FileEvents(c) \subseteq log[By[c]]

\* The heads that were read are still those of the log as it was then.
HeadsAreThoseRead ==
  \A c \in Call : at[c] \in {"heads", "done"} =>
    known[c] \subseteq log[By[c]] /\ heads[c] = Log!Heads(known[c])

\* A manifest that was appended names its files and those heads.
ManifestsNameAll ==
  \A c \in Call : at[c] = "done" =>
    c \in log[By[c]] /\ parents[c] = FileEvents(c) \cup heads[c]

\* Parents have no cycle: every set of events has one that none of them names.
\* That a new manifest is named by nobody keeps this true, so no induction
\* over the graph is needed.
Acyclic ==
  \A S \in SUBSET Event : S # {} => \E e \in S : \A x \in S : e \notin parents[x]

IInv ==
  /\ TypeOK
  /\ LogsClosed
  /\ FilesAreBare
  /\ UnpublishedIsUnseen
  /\ FilesAreStored
  /\ HeadsAreThoseRead
  /\ ManifestsNameAll
  /\ Acyclic
-----------------------------------------------------------------------------
\* A file event is an event, and no call has its name.
LEMMA FileEventType ==
  ASSUME NEW c \in Call, NEW f \in Files[c]
  PROVE  FileEvent(c, f) \in FileEvents(c) /\ FileEvent(c, f) \in Event \ Call
<1>1. FileEvent(c, f) \in FileEvents(c)
  BY DEF FileEvents
<1>2. FileEvent(c, f) \in Event
  BY <1>1 DEF Event
<1>3. f \in Content /\ By[c] \in Peer
  BY CallAssumption
<1>4. FileEvent(c, f) \in {Domain[x] : x \in Call} \X Peer \X Content
  BY <1>3 DEF FileEvent
<1>5. QED
  BY <1>1, <1>2, <1>4, CallAssumption

LEMMA FileEventsType ==
  ASSUME NEW c \in Call
  PROVE  FileEvents(c) \subseteq Event
BY DEF Event

LEMMA InitIInv == Init => IInv
<1> SUFFICES ASSUME Init PROVE IInv
  OBVIOUS
<1>1. TypeOK
  BY CallAssumption DEF Init, TypeOK
<1>2. LogsClosed /\ FilesAreBare /\ UnpublishedIsUnseen
  BY DEF Init, LogsClosed, FilesAreBare, UnpublishedIsUnseen, Event, Log!ParentClosed
<1>3. FilesAreStored /\ HeadsAreThoseRead /\ ManifestsNameAll
  BY DEF Init, FilesAreStored, HeadsAreThoseRead, ManifestsNameAll
<1>4. Acyclic
  BY DEF Init, Acyclic
<1>5. QED
  BY <1>1, <1>2, <1>3, <1>4 DEF IInv

-----------------------------------------------------------------------------
(* Every action preserves the invariant.                                   *)

\* Where logs only grow, by events that are published, most parts are kept.
LEMMA GrowingStep ==
  ASSUME IInv,
         UNCHANGED <<parents, heads, at, known>>,
         \A p \in Peer : log[p] \subseteq log'[p],
         \A p \in Peer : \A x \in log'[p] \cap Call : at[x] = "done"
  PROVE  /\ FilesAreBare' /\ UnpublishedIsUnseen' /\ HeadsAreThoseRead'
         /\ ManifestsNameAll' /\ Acyclic'
<1>1. FilesAreBare' /\ UnpublishedIsUnseen'
  BY DEF IInv, FilesAreBare, UnpublishedIsUnseen, Event, FileEvents, FileEvent
<1>2. HeadsAreThoseRead' /\ ManifestsNameAll'
  BY CallAssumption
     DEF IInv, HeadsAreThoseRead, ManifestsNameAll, Log!Heads, FileEvents, FileEvent
<1>3. Acyclic'
  BY DEF IInv, Acyclic, Event, FileEvents, FileEvent
<1>4. QED
  BY <1>1, <1>2, <1>3

LEMMA StoreFileStep ==
  ASSUME IInv, NEW c \in Call, StoreFile(c)
  PROVE  IInv'
<1>1. PICK f \in todo[c] :
        /\ at[c] = "files"
        /\ log' = [log EXCEPT ![By[c]] = @ \cup {FileEvent(c, f)}]
        /\ todo' = [todo EXCEPT ![c] = @ \ {f}]
        /\ UNCHANGED <<parents, heads, at, known>>
  BY DEF StoreFile
<1>2. By[c] \in Peer /\ FileEvent(c, f) \in Event \ Call
  BY FileEventType, CallAssumption DEF IInv, FilesAreStored
<1>3. ASSUME NEW p \in Peer
      PROVE  /\ log[p] \subseteq log'[p]
             /\ log'[p] \subseteq log[p] \cup {FileEvent(c, f)}
             /\ log'[p] \in SUBSET Event
  BY <1>1, <1>2 DEF IInv, TypeOK
<1>4. TypeOK'
  <2>1. log' \in [Peer -> SUBSET Event]
    BY <1>1, <1>3 DEF IInv, TypeOK
  <2>2. todo' \in [Call -> SUBSET Content]
    BY <1>1 DEF IInv, TypeOK
  <2>3. QED
    BY <1>1, <2>1, <2>2 DEF IInv, TypeOK, Event, FileEvents, FileEvent
<1>5. LogsClosed'
  BY <1>1, <1>2, <1>3 DEF IInv, LogsClosed, FilesAreBare, Log!ParentClosed
<1>6. FilesAreStored'
  <2> SUFFICES ASSUME NEW d \in Call
               PROVE  /\ todo'[d] \subseteq Files[d]
                      /\ at'[d] = "files" =>
                           \A g \in Files[d] \ todo'[d] : FileEvent(d, g) \in log'[By[d]]
                      /\ at'[d] \in {"heads", "done"} => FileEvents(d) \subseteq log'[By[d]]
    BY DEF FilesAreStored, FileEvents, FileEvent
  <2>1. By[d] \in Peer
    BY CallAssumption
  <2>2. todo'[d] = IF d = c THEN todo[c] \ {f} ELSE todo[d]
    BY <1>1 DEF IInv, TypeOK
  <2>3. d = c => FileEvent(d, f) \in log'[By[d]]
    BY <1>1, <2>1 DEF IInv, TypeOK
  <2>4. QED
    BY <1>1, <1>3, <2>1, <2>2, <2>3 DEF IInv, FilesAreStored
<1>7. \A p \in Peer : \A x \in log'[p] \cap Call : at[x] = "done"
  BY <1>2, <1>3 DEF IInv, UnpublishedIsUnseen
<1>8. QED
  BY <1>1, <1>3, <1>4, <1>5, <1>6, <1>7, GrowingStep DEF IInv

LEMMA SyncStep ==
  ASSUME IInv, NEW p \in Peer, NEW q \in Peer, Sync(p, q)
  PROVE  IInv'
<1>1. PICK D \in SUBSET (log[q] \ log[p]) :
        /\ Log!ParentClosed(log[p] \cup D)
        /\ log' = [log EXCEPT ![p] = @ \cup D]
        /\ UNCHANGED callVars
  BY DEF Sync
<1>2. ASSUME NEW r \in Peer
      PROVE  /\ log[r] \subseteq log'[r]
             /\ log'[r] = IF r = p THEN log[p] \cup D ELSE log[r]
             /\ log'[r] \subseteq Event
  BY <1>1 DEF IInv, TypeOK
<1>3. TypeOK'
  <2>1. log' \in [Peer -> SUBSET Event]
    BY <1>1, <1>2 DEF IInv, TypeOK
  <2>2. QED
    BY <1>1, <2>1 DEF IInv, TypeOK, callVars, Event, FileEvents, FileEvent
<1>4. LogsClosed'
  BY <1>1, <1>2 DEF IInv, LogsClosed, Log!ParentClosed, callVars
<1>5. FilesAreStored'
  BY <1>1, <1>2, CallAssumption DEF IInv, FilesAreStored, callVars, FileEvents, FileEvent
<1>6. \A r \in Peer : \A x \in log'[r] \cap Call : at[x] = "done"
  BY <1>1, <1>2 DEF IInv, UnpublishedIsUnseen
<1>7. QED
  BY <1>1, <1>2, <1>3, <1>4, <1>5, <1>6, GrowingStep DEF IInv, callVars

LEMMA CrashStep ==
  ASSUME IInv, NEW c \in Call, Crash(c)
  PROVE  IInv'
<1>1. TypeOK'
  BY DEF IInv, TypeOK, Crash, Event, FileEvents, FileEvent
<1>2. \A d \in Call : at'[d] = IF d = c THEN "crashed" ELSE at[d]
  BY DEF IInv, TypeOK, Crash
<1>3. LogsClosed' /\ FilesAreBare' /\ Acyclic'
  BY DEF IInv, LogsClosed, FilesAreBare, Acyclic, Crash, Log!ParentClosed,
         Event, FileEvents, FileEvent
<1>4. UnpublishedIsUnseen'
  BY <1>2 DEF IInv, UnpublishedIsUnseen, Crash
<1>5. FilesAreStored'
  BY <1>2 DEF IInv, FilesAreStored, Crash, FileEvents, FileEvent
<1>6. HeadsAreThoseRead' /\ ManifestsNameAll'
  BY <1>2 DEF IInv, HeadsAreThoseRead, ManifestsNameAll, Crash, Log!Heads,
              FileEvents, FileEvent
<1>7. QED
  BY <1>1, <1>3, <1>4, <1>5, <1>6 DEF IInv

LEMMA ReadHeadsStep ==
  ASSUME IInv, NEW c \in Call, ReadHeads(c)
  PROVE  IInv'
<1>1. By[c] \in Peer /\ log[By[c]] \subseteq Event
  BY CallAssumption DEF IInv, TypeOK
<1>2. Log!Heads(log[By[c]]) \subseteq Event
  BY <1>1 DEF Log!Heads
<1>3. TypeOK'
  <2>1. heads' \in [Call -> SUBSET Event]
    BY <1>2 DEF IInv, TypeOK, ReadHeads
  <2>2. known' \in [Call -> SUBSET Event]
    BY <1>1 DEF IInv, TypeOK, ReadHeads
  <2>3. at' \in [Call -> {"files", "heads", "done", "crashed"}]
    BY DEF IInv, TypeOK, ReadHeads
  <2>4. QED
    BY <2>1, <2>2, <2>3 DEF IInv, TypeOK, ReadHeads, Event, FileEvents, FileEvent
<1>4. ASSUME NEW d \in Call
      PROVE  /\ at'[d] = IF d = c THEN "heads" ELSE at[d]
             /\ heads'[d] = IF d = c THEN Log!Heads(log[By[c]]) ELSE heads[d]
             /\ known'[d] = IF d = c THEN log[By[c]] ELSE known[d]
  BY DEF IInv, TypeOK, ReadHeads
<1>5. LogsClosed' /\ FilesAreBare' /\ Acyclic'
  BY DEF IInv, LogsClosed, FilesAreBare, Acyclic, ReadHeads, Log!ParentClosed,
         Event, FileEvents, FileEvent
<1>6. UnpublishedIsUnseen'
  BY <1>4 DEF IInv, UnpublishedIsUnseen, ReadHeads
<1>7. FilesAreStored'
  <2>1. at[c] = "files" /\ todo[c] = {}
    BY DEF ReadHeads
  <2>2. FileEvents(c) \subseteq log[By[c]]
    BY <2>1 DEF IInv, FilesAreStored, FileEvents
  <2>3. QED
    BY <1>4, <2>2 DEF IInv, FilesAreStored, ReadHeads, FileEvents, FileEvent
<1>8. HeadsAreThoseRead'
  <2> SUFFICES ASSUME NEW d \in Call, at'[d] \in {"heads", "done"}
               PROVE  (known[d] \subseteq log[By[d]] /\ heads[d] = Log!Heads(known[d]))'
    BY DEF HeadsAreThoseRead
  <2>1. log' = log /\ parents' = parents
    BY DEF ReadHeads
  <2>2. Log!Heads(known[d])' = Log!Heads(known'[d])
    BY <2>1 DEF Log!Heads
  <2>3. CASE d = c
    BY <2>1, <2>2, <2>3, <1>4
  <2>4. CASE d # c
    BY <2>1, <2>2, <2>4, <1>4 DEF IInv, HeadsAreThoseRead
  <2>5. QED
    BY <2>3, <2>4
<1>9. ManifestsNameAll'
  BY <1>4 DEF IInv, ManifestsNameAll, ReadHeads, FileEvents, FileEvent
<1>10. QED
  BY <1>3, <1>5, <1>6, <1>7, <1>8, <1>9 DEF IInv

\* Nobody names a manifest before it is appended.
LEMMA UnpublishedIsUnnamed ==
  ASSUME IInv, NEW c \in Call, at[c] # "done", NEW x \in Event
  PROVE  c \notin parents[x]
<1>1. CASE x \notin Call
  BY <1>1 DEF IInv, FilesAreBare
<1>2. CASE x \in Call /\ at[x] # "done"
  BY <1>2 DEF IInv, UnpublishedIsUnseen
<1>3. CASE x \in Call /\ at[x] = "done"
  <2>1. By[x] \in Peer /\ x \in log[By[x]]
    BY <1>3, CallAssumption DEF IInv, ManifestsNameAll
  <2>2. parents[x] \subseteq log[By[x]]
    BY <2>1 DEF IInv, LogsClosed, Log!ParentClosed
  <2>3. QED
    BY <2>1, <2>2 DEF IInv, UnpublishedIsUnseen
<1>4. QED
  BY <1>1, <1>2, <1>3

LEMMA StoreManifestStep ==
  ASSUME IInv, NEW c \in Call, StoreManifest(c)
  PROVE  IInv'
<1> DEFINE ps == FileEvents(c) \cup heads[c]
<1>1. /\ at[c] = "heads"
      /\ ps \subseteq log[By[c]]
      /\ parents' = [parents EXCEPT ![c] = ps]
      /\ log' = [log EXCEPT ![By[c]] = @ \cup {c}]
      /\ at' = [at EXCEPT ![c] = "done"]
      /\ UNCHANGED <<todo, heads, known>>
  BY DEF StoreManifest, AppendManifest
<1> HIDE DEF ps
<1>2. By[c] \in Peer /\ c \in Event
  BY CallAssumption DEF Event
<1>3. ASSUME NEW p \in Peer
      PROVE  /\ log'[p] = IF p = By[c] THEN log[p] \cup {c} ELSE log[p]
             /\ log[p] \subseteq Event
             /\ c \notin log[p]
  BY <1>1 DEF IInv, TypeOK, UnpublishedIsUnseen
<1>4. ASSUME NEW x \in Event
      PROVE  parents'[x] = IF x = c THEN ps ELSE parents[x]
  BY <1>1 DEF IInv, TypeOK
<1>5. ASSUME NEW d \in Call
      PROVE  at'[d] = IF d = c THEN "done" ELSE at[d]
  BY <1>1 DEF IInv, TypeOK
<1>6. TypeOK'
  <2>1. parents' \in [Event -> SUBSET Event]
    BY <1>1, <1>2, <1>3 DEF IInv, TypeOK
  <2>2. log' \in [Peer -> SUBSET Event]
    BY <1>1, <1>2, <1>3 DEF IInv, TypeOK
  <2>3. at' \in [Call -> {"files", "heads", "done", "crashed"}]
    BY <1>1 DEF IInv, TypeOK
  <2>4. QED
    BY <1>1, <2>1, <2>2, <2>3 DEF IInv, TypeOK, Event, FileEvents, FileEvent
<1>7. LogsClosed'
  <2> SUFFICES ASSUME NEW p \in Peer, NEW e \in log'[p]
               PROVE  parents'[e] \subseteq log'[p]
    BY DEF LogsClosed, Log!ParentClosed
  <2>1. CASE e = c
    <3>1. p = By[c]
      BY <2>1, <1>3
    <3>2. parents'[e] = ps
      BY <2>1, <1>2, <1>4
    <3>3. QED
      BY <3>1, <3>2, <1>1, <1>3
  <2>2. CASE e # c
    <3>1. e \in log[p] /\ e \in Event
      BY <2>2, <1>3
    <3>2. parents'[e] \subseteq log[p]
      BY <3>1, <2>2, <1>4 DEF IInv, LogsClosed, Log!ParentClosed
    <3>3. QED
      BY <3>2, <1>3
  <2>3. QED
    BY <2>1, <2>2
<1>8. FilesAreBare'
  BY <1>4 DEF IInv, FilesAreBare, Event, FileEvents, FileEvent
<1>9. UnpublishedIsUnseen'
  <2> SUFFICES ASSUME NEW d \in Call, at'[d] # "done"
               PROVE  parents'[d] = {} /\ \A p \in Peer : d \notin log'[p]
    BY DEF UnpublishedIsUnseen
  <2>1. d # c /\ at[d] # "done" /\ d \in Event
    BY <1>5 DEF Event
  <2>2. parents'[d] = {}
    BY <2>1, <1>4 DEF IInv, UnpublishedIsUnseen
  <2>3. ASSUME NEW p \in Peer PROVE d \notin log'[p]
    <3>1. d \notin log[p]
      BY <2>1 DEF IInv, UnpublishedIsUnseen
    <3>2. log'[p] \subseteq log[p] \cup {c}
      BY <1>3
    <3>3. QED
      BY <2>1, <3>1, <3>2
  <2>4. QED
    BY <2>2, <2>3
<1>10. FilesAreStored'
  BY <1>1, <1>3, <1>5, CallAssumption DEF IInv, FilesAreStored, FileEvents, FileEvent
<1>11. HeadsAreThoseRead'
  <2> SUFFICES ASSUME NEW d \in Call, at'[d] \in {"heads", "done"}
               PROVE  known[d] \subseteq log'[By[d]] /\ heads[d] = Log!Heads(known[d])'
    BY <1>1 DEF HeadsAreThoseRead, Log!Heads
  <2>1. By[d] \in Peer /\ known[d] \subseteq log[By[d]] /\ heads[d] = Log!Heads(known[d])
    BY <1>1, <1>5, CallAssumption DEF IInv, HeadsAreThoseRead
  <2>2. \A x \in known[d] : parents'[x] = parents[x]
    BY <2>1, <1>3, <1>4
  <2>3. QED
    BY <1>1, <1>3, <2>1, <2>2 DEF Log!Heads
<1>12. ManifestsNameAll'
  <2> SUFFICES ASSUME NEW d \in Call, at'[d] = "done"
               PROVE  d \in log'[By[d]] /\ parents'[d] = FileEvents(d) \cup heads[d]
    BY <1>1 DEF ManifestsNameAll, FileEvents, FileEvent
  <2>1. d \in Event /\ By[d] \in Peer
    BY CallAssumption DEF Event
  <2>2. CASE d = c
    BY <2>1, <2>2, <1>3, <1>4 DEF ps
  <2>3. CASE d # c
    BY <2>1, <2>3, <1>3, <1>4, <1>5 DEF IInv, ManifestsNameAll
  <2>4. QED
    BY <2>2, <2>3
<1>13. Acyclic'
  <2> SUFFICES ASSUME NEW S \in SUBSET Event, S # {}
               PROVE  \E e \in S : \A x \in S : e \notin parents'[x]
    BY DEF Acyclic, Event, FileEvents, FileEvent
  <2>1. CASE c \in S
    <3>1. c \notin ps
      BY <1>1, <1>2, <1>3
    <3>2. \A x \in S : c \notin parents'[x]
      BY <1>1, <1>4, <3>1, UnpublishedIsUnnamed
    <3>3. QED
      BY <2>1, <3>2
  <2>2. CASE c \notin S
    BY <2>2, <1>4 DEF IInv, Acyclic
  <2>3. QED
    BY <2>1, <2>2
<1>14. QED
  BY <1>6, <1>7, <1>8, <1>9, <1>10, <1>11, <1>12, <1>13 DEF IInv

\* The invariant holds throughout.
THEOREM Invariance == Spec => []IInv
<1>1. IInv /\ [Next]_vars => IInv'
  <2> SUFFICES ASSUME IInv, [Next]_vars PROVE IInv'
    OBVIOUS
  <2>1. CASE \E c \in Call : Publish(c)
    BY <2>1, StoreFileStep, ReadHeadsStep, StoreManifestStep, CrashStep DEF Publish
  <2>2. CASE \E p, q \in Peer : Sync(p, q)
    BY <2>2, SyncStep
  <2>3. CASE UNCHANGED vars
    BY <2>3 DEF IInv, vars, callVars, TypeOK, LogsClosed, FilesAreBare,
                UnpublishedIsUnseen, FilesAreStored, HeadsAreThoseRead, ManifestsNameAll,
                Acyclic, Log!ParentClosed, Log!Heads, Event, FileEvents, FileEvent
  <2>4. QED
    BY <2>1, <2>2, <2>3 DEF Next
<1>2. QED
  BY InitIInv, <1>1, PTL DEF Spec

-----------------------------------------------------------------------------
(* What follows from the invariant.                                        *)

\* Every variable keeps its type.
THEOREM TypeCorrect == Spec => []TypeOK
BY Invariance, PTL DEF IInv

\* What a log has of the manifests.
LEMMA Published ==
  ASSUME IInv, NEW p \in Peer, NEW c \in log[p] \cap Call
  PROVE  /\ at[c] = "done"
         /\ parents[c] = FileEvents(c) \cup heads[c]
         /\ FileEvents(c) \subseteq log[p]
<1>1. at[c] = "done"
  BY DEF IInv, UnpublishedIsUnseen
<1>2. parents[c] = FileEvents(c) \cup heads[c]
  BY <1>1 DEF IInv, ManifestsNameAll
<1>3. parents[c] \subseteq log[p]
  BY DEF IInv, LogsClosed, Log!ParentClosed
<1>4. QED
  BY <1>1, <1>2, <1>3

LEMMA BundleIsRead ==
  ASSUME IInv, NEW p \in Peer, NEW c \in log[p] \cap Call
  PROVE  ReadBundle(log[p], c) = [is |-> "bundle", files |-> Files[c]]
BY Published DEF ReadBundle

\* A bundle whose manifest has arrived can be read in full (readBundle never
\* meets a missing file), wherever publishers stopped and however logs met.
THEOREM BundlesAreWhole == Spec => []VisibleIsComplete
<1>1. IInv => VisibleIsComplete
  <2> SUFFICES ASSUME IInv, NEW p \in Peer, NEW c \in log[p] \cap Call
               PROVE  ReadBundle(log[p], c) # Null
    BY DEF VisibleIsComplete
  <2>1. ReadBundle(log[p], c) = [is |-> "bundle", files |-> Files[c]]
    BY BundleIsRead
  <2>2. QED
    BY <2>1 DEF Null
<1>2. QED
  BY Invariance, <1>1, PTL

\* Whatever holds a manifest and all parents of what it holds, holds the log
\* that the manifest was published over: an event of that log that it lacked
\* would have a child there that it lacks as well, and so on without end.
LEMMA KnownIsBelow ==
  ASSUME IInv, NEW c \in Call, at[c] = "done",
         NEW D, Log!ParentClosed(D), c \in D
  PROVE  known[c] \subseteq D
<1> DEFINE S == known[c] \ D
<1> SUFFICES ASSUME S # {} PROVE FALSE
  OBVIOUS
<1>1. S \in SUBSET Event
  BY DEF IInv, TypeOK
<1>2. heads[c] = Log!Heads(known[c]) /\ heads[c] \subseteq D
  BY DEF IInv, HeadsAreThoseRead, ManifestsNameAll, Log!ParentClosed
<1>3. PICK e \in S : \A x \in S : e \notin parents[x]
  BY <1>1 DEF IInv, Acyclic
<1>4. e \notin Log!Heads(known[c])
  BY <1>2
<1>5. PICK x \in known[c] : e \in parents[x]
  BY <1>4 DEF Log!Heads
<1>6. x \notin D
  BY <1>5 DEF Log!ParentClosed
<1>7. QED
  BY <1>3, <1>5, <1>6

\* An author's versions are listed without gaps by whoever lists one of them.
THEOREM HistoryIsComplete == Spec => []HistoryHasNoGaps
<1>1. IInv => HistoryHasNoGaps
  <2> SUFFICES ASSUME IInv, NEW p \in Peer, NEW a \in Peer,
                      NEW c \in BundlesByAuthor(log[p], a)
               PROVE  BundlesByAuthor(known[c], a) \subseteq BundlesByAuthor(log[p], a)
    BY DEF HistoryHasNoGaps
  <2>1. c \in log[p] \cap Call
    BY DEF BundlesByAuthor
  <2>2. at[c] = "done"
    BY <2>1, Published
  <2>3. known[c] \subseteq log[p]
    BY <2>1, <2>2, KnownIsBelow DEF IInv, LogsClosed
  <2>4. QED
    BY <2>3 DEF BundlesByAuthor
<1>2. QED
  BY Invariance, <1>1, PTL

\* A version replaces every version of its domain that its publisher had.
THEOREM ReplacesAllKnown == Spec => []OverAllKnown
<1>1. IInv => OverAllKnown
  <2> SUFFICES ASSUME IInv, NEW p \in Peer, NEW c \in log[p] \cap Call, NEW e \in known[c]
               PROVE  e \in Under(log[p], c)
    BY DEF OverAllKnown, Manifests
  <2>1. at[c] = "done"
    BY Published
  <2>2. ASSUME NEW S \in SUBSET log[p], c \in S, Log!ParentClosed(S)
        PROVE  e \in S
    BY <2>1, <2>2, KnownIsBelow
  <2>3. e \in log[p]
    BY <2>1, KnownIsBelow DEF IInv, LogsClosed
  <2>4. QED
    BY <2>2, <2>3 DEF Under, Log!Reachable
<1>2. QED
  BY Invariance, <1>1, PTL

\* When latestBundle does not throw, it has found at most one manifest.
LEMMA AtMostOne ==
  ASSUME NEW ms \in SUBSET Call, ~(Cardinality(ms) > 1), NEW x \in ms, NEW y \in ms
  PROVE  x = y
<1> SUFFICES ASSUME x # y PROVE FALSE
  OBVIOUS
<1>1. IsFiniteSet(ms) /\ Cardinality(ms) \in Nat
  BY CallAssumption, FS_Subset, FS_CardinalityType
<1>2. IsFiniteSet({x}) /\ Cardinality({x}) = 1
  BY FS_Singleton
<1>3. Cardinality({x} \cup {y}) = 2
  <2>1. Cardinality({x} \cup {y}) = IF y \in {x} THEN Cardinality({x}) ELSE Cardinality({x}) + 1
    BY <1>2, FS_AddElement, Zenon
  <2>2. QED
    BY <1>2, <2>1
<1>4. Cardinality({x} \cup {y}) <= Cardinality(ms)
  BY <1>1, FS_Subset
<1>5. QED
  BY <1>1, <1>3, <1>4

\* What latestBundle returns.
LEMMA LatestBundleIs ==
  ASSUME IInv, NEW p \in Peer, NEW d
  PROVE  LET ms == ManifestHeads(log[p], d)
             latest == LatestBundle(log[p], d)
         IN  /\ ms = {} => latest = Null
             /\ ms # {} /\ Cardinality(ms) > 1 => latest = Fork
             /\ ms # {} /\ ~(Cardinality(ms) > 1) =>
                  \A c \in ms : latest = [is |-> "bundle", files |-> Files[c]]
<1> DEFINE ms == ManifestHeads(log[p], d)
           latest == LatestBundle(log[p], d)
<1>1. ms \subseteq log[p] \cap Call
  BY DEF ManifestHeads, Manifests, Log!Heads
<1>2. ms = {} => latest = Null
  BY DEF LatestBundle
<1>3. ms # {} /\ Cardinality(ms) > 1 => latest = Fork
  BY DEF LatestBundle
<1>4. ASSUME ms # {}, ~(Cardinality(ms) > 1), NEW c \in ms
      PROVE  latest = [is |-> "bundle", files |-> Files[c]]
  <2> DEFINE x == CHOOSE m \in ms : TRUE
  <2>1. x \in ms
    BY <1>4
  <2>2. latest = ReadBundle(log[p], x)
    BY <1>4 DEF LatestBundle
  <2> HIDE DEF x, latest
  <2>3. x = c
    BY <1>1, <1>4, <2>1, AtMostOne
  <2>4. QED
    BY <1>1, <1>4, <2>2, <2>3, BundleIsRead
<1>5. QED
  BY <1>2, <1>3, <1>4

\* Unless something is put on it, a published version is what latestBundle finds,
\* or one of several versions between which it does not choose.
LEMMA CurrentOrForked ==
  ASSUME IInv, NEW p \in Peer, NEW c \in log[p] \cap Call,
         \A m \in log[p] \cap Call : c \notin parents[m]
  PROVE  LET d == Domain[c] IN
         \/ LatestBundle(log[p], d) = [is |-> "bundle", files |-> Files[c]]
         \/ LatestBundle(log[p], d) = Fork /\ \E m \in ManifestHeads(log[p], d) : m # c
<1> DEFINE ms == ManifestHeads(log[p], Domain[c])
           b == LatestBundle(log[p], Domain[c])
<1>1. c \in Log!Heads(log[p])
  BY DEF IInv, TypeOK, FilesAreBare, Log!Heads
<1>2. c \in ms
  BY <1>1 DEF ManifestHeads, Manifests
<1>3. CASE ~(Cardinality(ms) > 1)
  BY <1>2, <1>3, LatestBundleIs
<1>4. CASE Cardinality(ms) > 1
  <2>1. b = Fork
    BY <1>2, <1>4, LatestBundleIs
  <2>2. \E m \in ms : m # c
    <3> SUFFICES ASSUME \A m \in ms : m = c PROVE FALSE
      OBVIOUS
    <3>1. ms = {c}
      BY <1>2
    <3>2. Cardinality({c}) = 1
      BY FS_Singleton
    <3> HIDE DEF ms
    <3>3. QED
      BY <1>4, <3>1, <3>2
  <2>3. QED
    BY <2>1, <2>2
<1>5. QED
  BY <1>3, <1>4

\* Every request for a file whose path a URL leaves as it is looks up that path.
LEMMA PlainIsFound ==
  ASSUME NEW c \in Call, NEW f \in Files[c], Plain(f), NEW path \in RequestsFor(f)
  PROVE  Lookup(path) = PathOf[f]
<1>1. f \in Content /\ PathOf[f] \in Nat \X Name
  BY CallAssumption, PathAssumption
<1>2. PICK n \in Name : PathOf[f] = <<0, n>> /\ n # Empty /\ Encoded[n] = n
  BY <1>1 DEF Plain
<1>3. CASE path \in {<<0, Empty>>, <<1, Empty>>} /\ PathOf[f] = <<0, Index>>
  BY <1>3 DEF Lookup
<1>4. ASSUME NEW more \in {0, 1}, path = UrlPath(f, more) PROVE Lookup(path) = PathOf[f]
  <2>1. path = <<more, n>>
    BY <1>2, <1>4 DEF UrlPath
  <2>2. path \notin {<<0, Empty>>, <<1, Empty>>}
    BY <1>2, <2>1
  <2>3. QED
    BY <1>2, <2>1, <2>2 DEF Lookup
<1>5. QED
  BY <1>3, <1>4 DEF RequestsFor

\* Until another manifest is put on a published version, whoever asks for a file of
\* it by a URL that can name the file gets that file, or the request is rejected
\* over a competing version.
THEOREM ServedMeanwhile == Spec => []ServedUntilReplaced
<1>1. IInv => ServedUntilReplaced
  <2> SUFFICES ASSUME IInv, NEW p \in Peer, NEW c \in log[p] \cap Call,
                      \A m \in log[p] \cap Call : c \notin parents[m],
                      NEW f \in Files[c], Plain(f), NEW path \in RequestsFor(f)
               PROVE  LET answer == Response(log[p], Domain[c], path) IN
                      \/ answer = [status |-> 200, files |-> {f}]
                      \/ /\ answer.status = 0
                         /\ \E m \in ManifestHeads(log[p], Domain[c]) : m # c
    BY DEF ServedUntilReplaced
  <2> DEFINE b == LatestBundle(log[p], Domain[c])
             found == ResolveFromBundle(log[p], Domain[c], path)
             hits == {g \in b.files : PathOf[g] = Lookup(path)}
  <2>1. found = IF b.is = "bundle" /\ hits = {} THEN Null ELSE [b EXCEPT !.files = hits]
    BY DEF ResolveFromBundle
  <2>2. \/ b = [is |-> "bundle", files |-> Files[c]]
        \/ b = Fork /\ \E m \in ManifestHeads(log[p], Domain[c]) : m # c
    BY CurrentOrForked
  <2>3. Lookup(path) = PathOf[f]
    BY PlainIsFound
  <2> HIDE DEF b
  <2>4. CASE b = Fork /\ \E m \in ManifestHeads(log[p], Domain[c]) : m # c
    <3>1. found.is = "fork"
      BY <2>1, <2>4 DEF Fork
    <3>2. QED
      BY <2>4, <3>1 DEF Response
  <2>5. CASE b = [is |-> "bundle", files |-> Files[c]]
    <3>1. hits = {f}
      BY <2>3, <2>5, CallAssumption
    <3>2. found = [is |-> "bundle", files |-> {f}]
      BY <2>1, <2>5, <3>1
    <3>3. QED
      BY <3>2 DEF Response
  <2>6. QED
    BY <2>2, <2>4, <2>5
<1>2. QED
  BY Invariance, <1>1, PTL

\* Of two versions that compete none is picked silently: above the other, the
\* log has a head, which is the version picked or a manifest of another domain.
THEOREM NothingIsPickedSilently == Spec => []NeverPicksSilently
<1>1. IInv => NeverPicksSilently
  <2> SUFFICES ASSUME IInv, NEW p \in Peer,
                      NEW m \in log[p] \cap Call, NEW c \in log[p] \cap Call,
                      m \in ManifestHeads(log[p], Domain[m]),
                      LatestBundle(log[p], Domain[m]).is = "bundle",
                      c # m, Domain[c] = Domain[m]
               PROVE  \/ c \in Under(log[p], m)
                      \/ \E x \in log[p] \cap Call :
                           Domain[x] # Domain[m] /\ c \in Under(log[p], x)
    BY DEF NeverPicksSilently
  <2> DEFINE L == log[p]
             U == {e \in L : c \in Under(L, e)}
  <2>1. c \in U /\ U \in SUBSET Event
    BY DEF IInv, TypeOK, Under, Log!Reachable
  <2>2. PICK e \in U : \A x \in U : e \notin parents[x]
    BY <2>1 DEF IInv, Acyclic
  <2>3. \A S \in SUBSET L : e \in S /\ Log!ParentClosed(S) => c \in S
    BY <2>2 DEF Under, Log!Reachable
  <2>4. e \in Log!Heads(L)
    <3> SUFFICES ASSUME NEW x \in L, e \in parents[x] PROVE x \in U
      BY <2>2 DEF Log!Heads
    <3>1. \A S \in SUBSET L : x \in S /\ Log!ParentClosed(S) => c \in S
      BY <2>3 DEF Log!ParentClosed
    <3>2. QED
      BY <3>1 DEF Under, Log!Reachable
  <2>5. e \in Call
    <3> SUFFICES ASSUME e \notin Call PROVE FALSE
      OBVIOUS
    <3>1. parents[e] = {}
      BY <2>1 DEF IInv, FilesAreBare
    <3>2. Log!ParentClosed({e})
      BY <3>1 DEF Log!ParentClosed
    <3>3. c \in {e}
      BY <3>2, <2>3
    <3>4. QED
      BY <3>3
  <2>6. CASE Domain[e] = Domain[m]
    <3> DEFINE ms == ManifestHeads(L, Domain[m])
    <3>1. e \in ms /\ m \in ms /\ ms \in SUBSET Call
      BY <2>4, <2>5, <2>6 DEF ManifestHeads, Manifests
    <3>2. ~(Cardinality(ms) > 1)
      BY <3>1, LatestBundleIs DEF Fork
    <3> HIDE DEF ms
    <3>3. e = m
      BY <3>1, <3>2, AtMostOne
    <3>4. QED
      BY <3>3, <2>2
  <2>7. CASE Domain[e] # Domain[m]
    BY <2>2, <2>5, <2>7
  <2>8. QED
    BY <2>6, <2>7
<1>2. QED
  BY Invariance, <1>1, PTL
=============================================================================
