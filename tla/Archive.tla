------------------------------- MODULE Archive -------------------------------
(***************************************************************************)
(* Archive nodes (archive-server.js) and the wallets that push backups to  *)
(* all of them and ask them for the latest one back (archive.js).          *)
(*                                                                         *)
(* A node serves many requests at a time.  A PUT reads the clock and the   *)
(* rate limiter when it arrives (lines 87-88), then awaits its body and    *)
(* the verification of the checkpoint (89-99), and only then compares with *)
(* the file, writes and counts (100-109), without another await: three     *)
(* parts, between which any other request may run.  A backup is its        *)
(* domain and the signed time of its checkpoint, createdAt.                *)
(*                                                                         *)
(* Reading a file may fail at any time, once or for good (lines 84, 102).  *)
(***************************************************************************)
EXTENDS Integers, FiniteSets, FiniteSetsExt

CONSTANTS
  Node,             \* the archive nodes every wallet knows
  Domain,           \* the wallets
  Push,             \* bound: the pushToNodes calls there may be
  Lost,             \* the wallets that lost their device and ask for a backup
  Address,
  AddressOf,        \* AddressOf[d]: the client address that d's wallet has
  MaxDomains,       \* limits.maxDomains
  WritesPerMinute,  \* limits.writesPerMinute
  Minute,           \* the rate limiter's window, in ticks
  FutureSkew,       \* limits.futureSkewMs, in ticks
  MaxTime,          \* bound: the last tick
  MaxCrashes        \* bound: how often nodes crash

ASSUME ArchiveAssumption ==
  /\ IsFiniteSet(Domain) /\ Domain # {} /\ Lost \subseteq Domain
  /\ AddressOf \in [Domain -> Address]
  /\ MaxDomains \in Nat /\ WritesPerMinute \in Nat /\ Minute \in Nat
  /\ FutureSkew \in Nat /\ MaxTime \in Nat \ {0} /\ MaxCrashes \in Nat

VARIABLES
  clock,    \* Date.now(), the same everywhere
  file,     \* file[n][d]: createdAt of the backup that n's directory holds of d
  up,       \* up[n]: the server process runs
  domains,  \* domains[n]: the server's count of the files
  writes,   \* writes[n][a]: the writes of a that the limiter remembers
  push,     \* push[k]: the backup of the k-th call
  put,      \* put[k][n]: where the PUT of that call is at n
  got,      \* got[k][n]: what the call made of it
  fetch,    \* the one fetchFromNodes call there may be
  blind,    \* blind[n]: the PUTs that replaced a file of n unread (history)
  crashes

vars == <<clock, file, up, domains, writes, push, put, got, fetch, blind, crashes>>
pushVars == <<push, put, got>>
serverVars == <<up, domains, writes, blind, crashes>>

NoBackup == 0
Failed == -1
Pending == -2

\* A wallet's own clock may run ahead of the nodes' by more than they allow.
Stamp == 1..(MaxTime + FutureSkew + 1)

\* Where a PUT is: not sent, on its way, being read and verified, answered with
\* 200 (stored or not) or an error, or over, with nobody left to answer.
PutState == {"none", "sent", "reading", "200", "error", "over"}

PutRecord == [at : PutState, now : 0..MaxTime]
GotState == {"none", "waiting", "ok", "failed"}

\* The limiter keeps times in an array.  Only how many there are matters, never
\* their order: here a set, each time with the call that it was taken for.
Write == [call : Push, time : 1..MaxTime]

\* A PUT that the server has finished, with this answer.
Finished(k, n, answer) ==
  [at |-> IF got[k][n] = "waiting" THEN answer ELSE "over", now |-> put[k][n].now]

\* The types of the variables, with the server's count in this set.
Types(count) ==
  /\ clock \in 1..MaxTime
  /\ file \in [Node -> [Domain -> Stamp \cup {NoBackup}]]
  /\ up \in [Node -> BOOLEAN]
  /\ domains \in [Node -> count]
  /\ writes \in [Node -> [Address -> SUBSET Write]]
  /\ push \in [Push -> [domain : Domain, createdAt : Stamp]]
  /\ put \in [Push -> [Node -> PutRecord]]
  /\ got \in [Push -> [Node -> GotState]]
  /\ fetch \in [at : {"none", "asking", "done"}, domain : Domain,
                answer : [Node -> Stamp \cup {NoBackup, Failed, Pending}],
                floor : [Node -> Stamp \cup {NoBackup}]]
  /\ blind \in [Node -> SUBSET Push]
  /\ crashes \in 0..MaxCrashes

\* A node never counts more files than it takes (archive-server.js:104).
TypeOK == Types(0..MaxDomains)

Held(n) == {d \in Domain : file[n][d] # NoBackup}

Init ==
  LET d0 == CHOOSE d \in Domain : TRUE IN
  /\ clock = 1
  /\ file = [n \in Node |-> [d \in Domain |-> NoBackup]]
  /\ up = [n \in Node |-> TRUE]
  /\ domains = [n \in Node |-> 0]
  /\ writes = [n \in Node |-> [a \in Address |-> {}]]
  /\ push = [k \in Push |-> [domain |-> d0, createdAt |-> 1]]
  /\ put = [k \in Push |-> [n \in Node |-> [at |-> "none", now |-> 0]]]
  /\ got = [k \in Push |-> [n \in Node |-> "none"]]
  /\ fetch = [at |-> "none", domain |-> d0, answer |-> [n \in Node |-> Pending],
              floor |-> [n \in Node |-> NoBackup]]
  /\ blind = [n \in Node |-> {}]
  /\ crashes = 0
-----------------------------------------------------------------------------
(* The server.                                                             *)

\* Mutant: only the writes of this very tick count.
RecentOfThisTick(n, a, now) == {w \in writes[n][a] : w.time = now}

\* The writes of a that the limiter still counts at time now.
Recent(n, a, now) == {w \in writes[n][a] : now - w.time < Minute}

\* A PUT arrives: its time is taken, and the limiter asked.
Receive(k, n) ==
  LET a == AddressOf[push[k].domain]
      recent == Recent(n, a, clock)
      limited == Cardinality(recent) >= WritesPerMinute IN
  /\ up[n] /\ put[k][n].at = "sent"
  /\ writes' = [writes EXCEPT ![n][a] = IF limited THEN recent
                                    ELSE recent \cup {[call |-> k, time |-> clock]}]
  /\ put' = [put EXCEPT ![k][n] =
       IF limited THEN Finished(k, n, "error") ELSE [at |-> "reading", now |-> clock]]
  /\ UNCHANGED <<clock, file, up, domains, push, got, fetch, blind, crashes>>

\* The body is too long or no backup, or writing the file throws.
Refuse(k, n) ==
  /\ put[k][n].at = "reading"
  /\ put' = [put EXCEPT ![k][n] = Finished(k, n, "error")]
  /\ UNCHANGED <<clock, file, push, got, fetch, serverVars>>

\* Mutant: the date is not checked.
AnyDate(k, n) == TRUE

\* The checkpoint is not from the future, as of the time the PUT arrived.
NotFuture(k, n) == push[k].createdAt <= put[k][n].now + FutureSkew

\* What reading the file of d may give: the backup in it, or nothing, because
\* there is none or because reading or parsing it fails (line 102).
Known(n, d) == {file[n][d], NoBackup}

\* Mutant: the last backup to arrive wins.
LastWins(k, known) == TRUE

\* It is more recent than the backup that was read, if one was.
Newer(k, known) == push[k].createdAt > known

\* Mutant: one wallet too many.
RoomForOneMore(n, known) == known = NoBackup => domains[n] <= MaxDomains

\* A wallet of which nothing was read counts as a new one.
Room(n, known) == known = NoBackup => domains[n] < MaxDomains

\* The rest of the PUT runs without an await: unless the backup that was read is
\* as new, the file is replaced, by a rename (all or nothing).
Store(k, n) == \E known \in Known(n, push[k].domain) :
  LET d      == push[k].domain
      stored == NotFuture(k, n) /\ Newer(k, known) /\ Room(n, known) IN
  /\ put[k][n].at = "reading"
  /\ IF stored
       THEN /\ file' = [file EXCEPT ![n][d] = push[k].createdAt]
            /\ domains' = [domains EXCEPT ![n] = IF known = NoBackup THEN @ + 1 ELSE @]
            /\ blind' = [blind EXCEPT ![n] = IF known = file[n][d] THEN @ ELSE @ \cup {k}]
       ELSE UNCHANGED <<file, domains, blind>>
  /\ put' = [put EXCEPT ![k][n] = Finished(k, n,
       IF stored \/ (NotFuture(k, n) /\ ~Newer(k, known)) THEN "200" ELSE "error")]
  /\ UNCHANGED <<clock, up, writes, push, got, fetch, crashes>>

\* The process ends: the requests it was serving, its count and its limiter go.
Exit(n) ==
  /\ up[n] /\ crashes < MaxCrashes
  /\ crashes' = crashes + 1
  /\ up' = [up EXCEPT ![n] = FALSE]
  /\ put' = [k \in Push |->
       [put[k] EXCEPT ![n] = IF @.at = "reading" THEN Finished(k, n, "error") ELSE @]]
  /\ UNCHANGED <<clock, file, domains, writes, push, got, blind>>

Crash(n) == Exit(n) /\ UNCHANGED fetch

\* Mutant: the count starts from nothing.
RestartFromZero(n) ==
  /\ ~up[n]
  /\ up' = [up EXCEPT ![n] = TRUE]
  /\ domains' = [domains EXCEPT ![n] = 0]
  /\ writes' = [writes EXCEPT ![n] = [a \in Address |-> {}]]
  /\ UNCHANGED <<clock, file, fetch, blind, crashes, pushVars>>

\* createArchiveServer on the same directory: the files are counted (a *.tmp
\* that a crash left behind is not one of them).
Restart(n) ==
  /\ ~up[n]
  /\ up' = [up EXCEPT ![n] = TRUE]
  /\ domains' = [domains EXCEPT ![n] = Cardinality(Held(n))]
  /\ writes' = [writes EXCEPT ![n] = [a \in Address |-> {}]]
  /\ UNCHANGED <<clock, file, fetch, blind, crashes, pushVars>>
-----------------------------------------------------------------------------
(* The client.                                                             *)

\* pushToNodes: a PUT to every node at once.
PushToNodes(k, d, t) ==
  /\ \A n \in Node : got[k][n] = "none"
  /\ push' = [push EXCEPT ![k] = [domain |-> d, createdAt |-> t]]
  /\ put' = [put EXCEPT ![k] = [n \in Node |-> [at |-> "sent", now |-> 0]]]
  /\ got' = [got EXCEPT ![k] = [n \in Node |-> "waiting"]]
  /\ UNCHANGED <<clock, file, fetch, serverVars>>

\* The node's answer, or that the connection broke, reaches the call.
Answer(k, n) ==
  /\ got[k][n] = "waiting" /\ put[k][n].at \in {"200", "error"}
  /\ got' = [got EXCEPT ![k][n] = IF put[k][n].at = "200" THEN "ok" ELSE "failed"]
  /\ put' = [put EXCEPT ![k][n] = [at |-> "over", now |-> @.now]]
  /\ UNCHANGED <<clock, file, push, fetch, serverVars>>

\* The call gives up on the node: a timeout, or no connection.  The PUT may be
\* on its way still, and may still be stored; its answer reaches nobody.
GiveUp(k, n) ==
  /\ got[k][n] = "waiting"
  /\ got' = [got EXCEPT ![k][n] = "failed"]
  /\ put' = [put EXCEPT ![k][n] =
       IF @.at \in {"200", "error"} THEN [at |-> "over", now |-> @.now] ELSE @]
  /\ UNCHANGED <<clock, file, push, fetch, serverVars>>

\* The newest backup of d that the wallet was told n holds, by the results of its
\* calls (history: the client keeps no such record).
Acked(n, d) ==
  Max({NoBackup} \cup {push[k].createdAt : k \in
        {j \in Push : push[j].domain = d /\ got[j][n] = "ok"}})

\* fetchFromNodes: every node is asked at once.  floor is what the wallet could
\* count on by then.
FetchFromNodes(d) ==
  /\ fetch.at = "none"
  /\ fetch' = [at |-> "asking", domain |-> d, answer |-> [n \in Node |-> Pending],
               floor |-> [n \in Node |-> Acked(n, d)]]
  /\ UNCHANGED <<clock, file, pushVars, serverVars>>

\* The call under way, with these answers.
Asked(at, answer) ==
  [at |-> at, domain |-> fetch.domain, answer |-> answer, floor |-> fetch.floor]

\* A node answers the GET with the file it has at that moment, or does not.
AnswerFetch(n) ==
  /\ fetch.at = "asking" /\ fetch.answer[n] = Pending
  /\ \E reply \in {Failed} \cup IF up[n] THEN {file[n][fetch.domain]} ELSE {} :
       fetch' = Asked("asking", [fetch.answer EXCEPT ![n] = reply])
  /\ UNCHANGED <<clock, file, pushVars, serverVars>>

\* A GET of a file that cannot be read ends the process: the head of the answer is
\* out (line 83), so the 500 of line 113 throws too, outside of any handler.
FetchCrashes(n) ==
  /\ fetch.at = "asking" /\ fetch.answer[n] = Pending
  /\ file[n][fetch.domain] # NoBackup
  /\ fetch' = Asked("asking", [fetch.answer EXCEPT ![n] = Failed])
  /\ Exit(n)

\* Mutant: any answer will do.
BestIsAny == LET answers == {fetch.answer[n] : n \in Node} \ {Failed, NoBackup} IN
  IF answers = {} THEN NoBackup ELSE Min(answers)

\* The most recent of the answers, or nothing when no node holds a backup.
Best == LET answers == {fetch.answer[n] : n \in Node} \ {Failed, NoBackup} IN
  IF answers = {} THEN NoBackup ELSE Max(answers)

\* All have answered or failed; the call returns Best.
FetchDone ==
  /\ fetch.at = "asking"
  /\ \A n \in Node : fetch.answer[n] # Pending
  /\ fetch' = Asked("done", fetch.answer)
  /\ UNCHANGED <<clock, file, pushVars, serverVars>>
-----------------------------------------------------------------------------
Tick ==
  /\ clock < MaxTime
  /\ clock' = clock + 1
  /\ UNCHANGED <<file, fetch, pushVars, serverVars>>

Server(n) ==
  \/ \E k \in Push : Receive(k, n) \/ Refuse(k, n) \/ Store(k, n)
  \/ Crash(n)
  \/ Restart(n)

Client ==
  \/ \E k \in Push : \/ \E d \in Domain, t \in Stamp : PushToNodes(k, d, t)
                     \/ \E n \in Node : Answer(k, n) \/ GiveUp(k, n)
  \/ \E d \in Lost : FetchFromNodes(d)
  \/ \E n \in Node : AnswerFetch(n) \/ FetchCrashes(n)
  \/ FetchDone

Next == (\E n \in Node : Server(n)) \/ Client \/ Tick

Spec == Init /\ [][Next]_vars
-----------------------------------------------------------------------------
(* Properties.                                                             *)

\* The PUTs of d's wallet that replaced a file of n without having read it.
BlindFor(n, d) == {k \in blind[n] : push[k].domain = d}

\* "Replaying an old one does not roll the wallet back" (archive.test.mjs:87),
\* also when two PUTs of one wallet overlap, finish out of order, or outlive
\* the call that sent them: what a node holds gets older only by a PUT that
\* finds a file it cannot read (archive-server.js:102).
NoRollback ==
  [][\A n \in Node, d \in Domain :
       file'[n][d] < file[n][d] => BlindFor(n, d)' # BlindFor(n, d)]_vars

\* The limit is on what is really kept: the running count never falls behind
\* the files, whatever was interleaved, could not be read, and however often the
\* process ended.  It runs ahead by no more than the files replaced unread, which
\* line 108 counts again.
CountIsRight ==
  \A n \in Node :
    LET files == Cardinality(Held(n)) IN
    /\ up[n] => domains[n] \in files..(files + Cardinality(blind[n]))
    /\ files <= MaxDomains

\* What a call was told is stored, or was older than what is, stays so, unless a
\* later PUT could not read the file.
AckedIsHeld ==
  \A n \in Node, d \in Domain : BlindFor(n, d) = {} => file[n][d] >= Acked(n, d)

\* No file is dated further ahead than allowed, although the check uses the
\* time at which the PUT arrived (archive-server.js:41 and 87).
NotFromTheFuture ==
  \A n \in Node, d \in Domain : file[n][d] <= clock + FutureSkew

\* A recovery returns nothing older than what any node that answered had
\* acknowledged when it began, whatever was pushed meanwhile, unless that node
\* replaced the file without having read it.
RecoversWhatWasAcked ==
  fetch.at = "done" =>
    \A n \in Node : fetch.answer[n] # Failed /\ BlindFor(n, fetch.domain) = {}
                      => Best >= fetch.floor[n]

\* The PUTs of an address that arrived in the minute up to t and were let through.
Admitted(n, a, t) == {k \in Push : /\ AddressOf[push[k].domain] = a
                                   /\ put[k][n].now \in (t - Minute + 1)..t
                                   /\ put[k][n].now # 0}

\* As long as a node runs, it admits at most writesPerMinute writes of one
\* address in any minute.
RateIsBounded ==
  crashes = 0 => \A n \in Node, a \in Address, t \in 1..MaxTime :
    Cardinality(Admitted(n, a, t)) <= WritesPerMinute
=============================================================================
