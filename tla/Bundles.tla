------------------------------- MODULE Bundles -------------------------------
(***************************************************************************)
(* Application bundles (bundle.js) that several peers publish at once into *)
(* logs that replicate, and what a service worker (serve-worker.js) serves *)
(* from them.  The events of a log are files, named by their domain,       *)
(* author and content, and manifests, each named by the call of            *)
(* publishBundle that signs it.  The parents of a manifest are known only  *)
(* then, so they are a variable.  Replication is what CausalGossip says.   *)
(***************************************************************************)
EXTENDS Naturals, FiniteSets

CONSTANTS
  Peer,
  Content,        \* what a file is: a path and its text
  Call,           \* the calls of publishBundle
  By, Domain,     \* who makes call c, and the domain it publishes to
  Files,          \* Files[c]: the files of the bundle
  Crashing,       \* the calls that a crash may interrupt
  Name,           \* what a path is without its leading slashes
  PathOf,         \* PathOf[f]: the number of leading slashes of f's path, and its name
  Encoded,        \* Encoded[n]: what the path of a URL makes of n
  Index, Empty    \* the names index.html and the empty one

ASSUME CallAssumption ==
  /\ IsFiniteSet(Call)
  /\ By \in [Call -> Peer]
  /\ DOMAIN Domain = Call
  /\ Files \in [Call -> SUBSET Content]
  /\ Crashing \subseteq Call
  /\ \A c \in Call : \A f, g \in Files[c] : PathOf[f] = PathOf[g] => f = g
  /\ Call \cap ({Domain[c] : c \in Call} \X Peer \X Content) = {}

ASSUME PathAssumption ==
  /\ PathOf \in [Content -> Nat \X Name]
  /\ Encoded \in [Name -> Name]
  /\ {Index, Empty} \subseteq Name

VARIABLES
  log,       \* log[p]: the events in p's log
  parents,   \* parents[e]: the parents that event e names
  todo,      \* todo[c]: the files that call c has still to store
  heads,     \* heads[c]: the prior heads it has read
  at,        \* at[c]: how far it is
  known      \* known[c]: the log when it read the heads (history)

callVars == <<parents, todo, heads, at, known>>
vars == <<log, callVars>>

\* A file's event has no parents and no time (lines 12-23), so an author who
\* publishes the same content again gets the same event.
FileEvent(c, f) == <<Domain[c], By[c], f>>
FileEvents(c) == {FileEvent(c, f) : f \in Files[c]}

Event == Call \cup UNION {FileEvents(c) : c \in Call}

Log == INSTANCE EventGraph WITH Parents <- parents

Manifests(L, d) == {c \in L \cap Call : Domain[c] = d}

TypeOK ==
  /\ log \in [Peer -> SUBSET Event]
  /\ parents \in [Event -> SUBSET Event]
  /\ todo \in [Call -> SUBSET Content]
  /\ heads \in [Call -> SUBSET Event]
  /\ at \in [Call -> {"files", "heads", "done", "crashed"}]
  /\ known \in [Call -> SUBSET Event]

Init ==
  /\ log = [p \in Peer |-> {}]
  /\ parents = [e \in Event |-> {}]
  /\ todo = Files
  /\ heads = [c \in Call |-> {}]
  /\ at = [c \in Call |-> "files"]
  /\ known = [c \in Call |-> {}]
-----------------------------------------------------------------------------
(* publishBundle.                                                          *)

\* Mutant: the bare file is stored.
StoreContent(c) == \E f \in todo[c] :
  /\ at[c] = "files"
  /\ log' = [log EXCEPT ![By[c]] = @ \cup {f}]
  /\ todo' = [todo EXCEPT ![c] = @ \ {f}]
  /\ UNCHANGED <<parents, heads, at, known>>

\* One file is signed and stored, if the log has it not.
StoreFile(c) == \E f \in todo[c] :
  /\ at[c] = "files"
  /\ log' = [log EXCEPT ![By[c]] = @ \cup {FileEvent(c, f)}]
  /\ todo' = [todo EXCEPT ![c] = @ \ {f}]
  /\ UNCHANGED <<parents, heads, at, known>>

\* Mutant: one of the prior heads is thought to be enough.
ReadOneHead(c) ==
  /\ at[c] = "files" /\ todo[c] = {}
  /\ \E h \in Log!Heads(log[By[c]]) : heads' = [heads EXCEPT ![c] = {h}]
  /\ known' = [known EXCEPT ![c] = log[By[c]]]
  /\ at' = [at EXCEPT ![c] = "heads"]
  /\ UNCHANGED <<log, parents, todo>>

\* log.head(), once all files are stored; the signing of the manifest follows.
ReadHeads(c) ==
  /\ at[c] = "files" /\ todo[c] = {}
  /\ heads' = [heads EXCEPT ![c] = Log!Heads(log[By[c]])]
  /\ known' = [known EXCEPT ![c] = log[By[c]]]
  /\ at' = [at EXCEPT ![c] = "heads"]
  /\ UNCHANGED <<log, parents, todo>>

\* append() of the manifest, which the log refuses when it lacks a parent.
AppendManifest(c, ps) ==
  /\ at[c] = "heads"
  /\ ps \subseteq log[By[c]]
  /\ parents' = [parents EXCEPT ![c] = ps]
  /\ log' = [log EXCEPT ![By[c]] = @ \cup {c}]
  /\ at' = [at EXCEPT ![c] = "done"]
  /\ UNCHANGED <<todo, heads, known>>

\* Mutant: the files are named in the payload only.
StoreManifestOnManifests(c) == AppendManifest(c, heads[c] \cap Call)

\* The manifest is stored on its files and on the heads read before, whichever
\* domain those are of (lines 45-48).
StoreManifest(c) == AppendManifest(c, FileEvents(c) \cup heads[c])

\* The publishing process ends half way.
Crash(c) ==
  /\ c \in Crashing /\ at[c] \in {"files", "heads"}
  /\ at' = [at EXCEPT ![c] = "crashed"]
  /\ UNCHANGED <<log, parents, todo, heads, known>>

\* p takes over events of q, never one before its parents.
Sync(p, q) == \E D \in SUBSET (log[q] \ log[p]) :
  /\ D # {}
  /\ Log!ParentClosed(log[p] \cup D)
  /\ log' = [log EXCEPT ![p] = @ \cup D]
  /\ UNCHANGED callVars

Publish(c) == StoreFile(c) \/ ReadHeads(c) \/ StoreManifest(c) \/ Crash(c)

Next ==
  \/ \E c \in Call : Publish(c)
  \/ \E p, q \in Peer : Sync(p, q)

Spec == Init /\ [][Next]_vars
-----------------------------------------------------------------------------
(* What is read from a log L.                                              *)

Null == [is |-> "null", files |-> {}]
Fork == [is |-> "fork", files |-> {}]

\* readBundle: null when the manifest or a file of it is missing.
ReadBundle(L, c) ==
  IF c \in L /\ FileEvents(c) \subseteq L THEN [is |-> "bundle", files |-> Files[c]] ELSE Null

ManifestHeads(L, d) == Manifests(Log!Heads(L), d)

\* Mutant: takes one of several manifests.
AnyBundle(L, d) ==
  LET ms == ManifestHeads(L, d) IN
  IF ms = {} THEN Null ELSE ReadBundle(L, CHOOSE c \in ms : TRUE)

\* latestBundle: the one manifest of d among the heads; it throws if there are more.
LatestBundle(L, d) ==
  LET ms == ManifestHeads(L, d) IN
  IF ms = {} THEN Null
  ELSE IF Cardinality(ms) > 1 THEN Fork
  ELSE ReadBundle(L, CHOOSE c \in ms : TRUE)

\* Mutant: lists what is current only.
CurrentBundlesByAuthor(L, p) == {c \in Log!Heads(L) \cap Call : By[c] = p}

\* listBundlesByAuthor.
BundlesByAuthor(L, p) == {c \in L \cap Call : By[c] = p}

\* The path that is looked up for a request: the root stands for index.html, and
\* one leading slash goes.
Lookup(path) ==
  IF path \in {<<0, Empty>>, <<1, Empty>>} THEN <<0, Index>>
  ELSE IF path[1] > 0 THEN <<path[1] - 1, path[2]>>
  ELSE path

\* resolveFromBundle: what is found, if anything, for the path of a request.
ResolveFromBundle(L, d, path) ==
  LET b    == LatestBundle(L, d)
      hits == {f \in b.files : PathOf[f] = Lookup(path)} IN
  IF b.is = "bundle" /\ hits = {} THEN Null ELSE [b EXCEPT !.files = hits]

\* Mutant: the fetch handler takes any failure for a file that is not there.
NotFoundOnAnyFailure(L, d, path) ==
  LET found == ResolveFromBundle(L, d, path) IN
  [status |-> [null |-> 404, bundle |-> 200, fork |-> 404][found.is], files |-> found.files]

\* What the fetch handler answers (status 0: the response is rejected).
Response(L, d, path) ==
  LET found == ResolveFromBundle(L, d, path) IN
  [status |-> [null |-> 404, bundle |-> 200, fork |-> 0][found.is], files |-> found.files]

\* The path under the scope of a URL that asks for f.  The handler takes it from
\* the parsed URL and does not decode it; it has a slash more when the scope ends
\* without one.
UrlPath(f, more) == <<PathOf[f][1] + more, Encoded[PathOf[f][2]]>>

\* A URL can name f: its path has no leading slash and nothing that is encoded.
Plain(f) == LET name == PathOf[f][2] IN
  PathOf[f][1] = 0 /\ name # Empty /\ Encoded[name] = name

\* The paths of the requests that ask for f.
RequestsFor(f) ==
  {UrlPath(f, more) : more \in {0, 1}}
    \cup IF PathOf[f] = <<0, Index>> THEN {<<0, Empty>>, <<1, Empty>>} ELSE {}

\* All that m was published over, in log L: m, its parents, their parents, ...
Under(L, m) == Log!Reachable(L, {m})

-----------------------------------------------------------------------------
(* Properties.                                                             *)

\* A peer that has a manifest has all of its files, however the log reached it
\* and wherever its publisher stopped: "not fully synced" (bundle.js:63) is
\* said of manifests that are not there yet, never of half a bundle.
VisibleIsComplete ==
  \A p \in Peer : \A c \in log[p] \cap Call : ReadBundle(log[p], c) # Null

\* A version is published over every version of its domain that the publisher's
\* log held, forks included, when it read the heads (lines 22-26, 45): only
\* publishers that do not know of each other fork, and the next one that knows
\* both heals it.
OverAllKnown ==
  \A p \in Peer : \A c \in log[p] \cap Call :
    \A m \in Manifests(known[c], Domain[c]) : m \in Under(log[p], c)

\* The service worker answers a request for a file of a published version with that
\* file, until another manifest is published over the version; it rejects the
\* request while there is a competing version, and never says 404 (serve-worker.js:
\* 44-53, 73-82).  This goes for files whose paths a URL leaves as they are: any
\* other file is looked up by the encoded path and not found.
ServedUntilReplaced ==
  \A p \in Peer : \A c \in log[p] \cap Call :
    \/ \E m \in log[p] \cap Call : c \in parents[m]
    \/ \A f \in Files[c] : Plain(f) => \A path \in RequestsFor(f) :
         LET answer == Response(log[p], Domain[c], path) IN
         \/ answer = [status |-> 200, files |-> {f}]
         \/ answer.status = 0 /\ \E m \in ManifestHeads(log[p], Domain[c]) : m # c

\* Of two competing versions none is picked silently (bundle.js:79): beside the
\* version that latestBundle takes, the log has only versions that it replaces,
\* unless a manifest of another domain hides one.
NeverPicksSilently ==
  \A p \in Peer : \A m, c \in log[p] \cap Call :
    LET d == Domain[m] IN
    /\ m \in ManifestHeads(log[p], d) /\ LatestBundle(log[p], d).is = "bundle"
    /\ c # m /\ Domain[c] = d
    => \/ c \in Under(log[p], m)
       \/ \E x \in log[p] \cap Call : Domain[x] # d /\ c \in Under(log[p], x)

\* The history of an author that a peer lists has no gaps (lines 93-104): with a
\* version it lists all earlier ones that its author had in the log.
HistoryHasNoGaps ==
  \A p, a \in Peer : \A c \in BundlesByAuthor(log[p], a) :
    BundlesByAuthor(known[c], a) \subseteq BundlesByAuthor(log[p], a)

\* latestBundle is "null if none has been published yet" (bundle.js:79), only
\* then.  The code does not do this: see BundlesHidden.cfg.
NullOnlyIfUnpublished ==
  \A p \in Peer, c \in Call :
    LatestBundle(log[p], Domain[c]) = Null => Manifests(log[p], Domain[c]) = {}
=============================================================================
