------------------------------ MODULE Introducer ------------------------------
(***************************************************************************)
(* The Introducer (introducer.js) of every peer over its WebrtcTransport.  *)
(* A session is one call of requestIntroduction; it makes at most one      *)
(* offer, the attempt of the same name.                                    *)
(*                                                                         *)
(* Handlers are not queued: one that awaits the transport lets others run. *)
(* A handler is split where createOfferFor and acceptOffer wait for        *)
(* candidates, and between the mediator's two sends, where a transport     *)
(* may deliver the answer to the first (as that of introducer.test.mjs).   *)
(***************************************************************************)
EXTENDS WebrtcTransport

CONSTANTS
  Session,
  By,        \* By[s]: the peer that calls requestIntroduction
  Via,       \* Via[s]: the mediator it asks
  Exclude,   \* Exclude[s]: the peers it does not want to be introduced to
  MayFail    \* the sessions in which the browser may refuse to make a description

ASSUME SessionAssumption ==
  /\ Session \subseteq Attempt \ (ByHand \cup DOMAIN Established)
  /\ By \in [Session -> Peer]
  /\ Via \in [Session -> Peer]
  /\ Exclude \in [Session -> SUBSET Peer]
  /\ \A s \in Session : By[s] # Via[s]
  /\ MayFail \subseteq Session

VARIABLES
  request,     \* request[s]: the promise that requestIntroduction returned
  mediating,   \* _mediating of Via[s]: whom it introduces to By[s], or None
  assigning,   \* whom the mediator has still to send its ASSIGN of s, or None
  roles,       \* _roles: roles[p][s]
  buffered,    \* _bufferedRelays: buffered[p][s] is the blob, or "none"
  awaiting,    \* the sessions for which p awaits createOfferFor or acceptOffer
  listening    \* whether p's Introducer is subscribed to messages

sessionVars == <<request, mediating, assigning, roles, buffered, awaiting, listening>>
vars == <<transportVars, sessionVars>>

Role == [role : {"offerer", "answerer"}, peer : Peer] \cup {[role |-> "none", peer |-> None]}
NoRole == [role |-> "none", peer |-> None]

\* body: the role assigned, or the kind of the blob relayed.
Message == [type : {"REQUEST", "ASSIGN", "RELAY", "FAILED"}, session : Session,
            body : {"none", "offerer", "answerer", "offer", "answer"}, peer : Peer \cup {None}]

Msg(type, s, body, peer) == [type |-> type, session |-> s, body |-> body, peer |-> peer]

TypeOK ==
  /\ ends \in [Attempt -> {<<>>} \cup (Peer \X Peer)]
  /\ pc \in [Peer -> [Attempt -> PcState]]
  /\ links \in [Peer -> [Peer -> Attempt \cup {None}]]
  /\ openPeers \in [Peer -> SUBSET Peer]
  /\ lateClose \in [Peer -> SUBSET Attempt]
  /\ wire \in [Peer -> [Attempt -> Seq(Message)]]
  /\ leaves \in 0..MaxLeaves
  /\ request \in [Session -> {"none", "pending", "resolved", "rejected"}]
  /\ mediating \in [Session -> Peer \cup {None}]
  /\ assigning \in [Session -> Peer \cup {None}]
  /\ roles \in [Peer -> [Session -> Role]]
  /\ buffered \in [Peer -> [Session -> {"none", "offer", "answer"}]]
  /\ awaiting \in [Peer -> SUBSET Session]
  /\ listening \in [Peer -> BOOLEAN]

Init ==
  /\ TransportInit
  /\ request = [s \in Session |-> "none"]
  /\ mediating = [s \in Session |-> None]
  /\ assigning = [s \in Session |-> None]
  /\ roles = [p \in Peer |-> [s \in Session |-> NoRole]]
  /\ buffered = [p \in Peer |-> [s \in Session |-> "none"]]
  /\ awaiting = [p \in Peer |-> {}]
  /\ listening = [p \in Peer |-> TRUE]
-----------------------------------------------------------------------------
\* Mutant: an error is swallowed, and the promise resolves all the same.
SettledAnyway(p, s, outcome) ==
  IF By[s] = p /\ request[s] = "pending" THEN [request EXCEPT ![s] = "resolved"] ELSE request

\* p's promise for s, if it has one that is not settled, gets this outcome.
Settled(p, s, outcome) ==
  IF By[s] = p /\ request[s] = "pending" THEN [request EXCEPT ![s] = outcome] ELSE request

\* p takes the next message of this type off an open channel.
Receive(p, k, type) ==
  /\ listening[p]
  /\ pc[p][k] = "open"
  /\ wire[p][k] # <<>>
  /\ Head(wire[p][k]).type = type

Taken(p, k) == [wire EXCEPT ![p][k] = Tail(@)]

\* Mutant: _fail does not tell the mediator.
FailSilently(w, p, s) ==
  /\ wire' = w
  /\ request' = Settled(p, s, "rejected")

\* _fail, with w in transit so far.
Fail(w, p, s) ==
  /\ wire' = Sent(w, p, Via[s], Msg("FAILED", s, "none", None))
  /\ request' = Settled(p, s, "rejected")

\* Mutant: the role outlives its peer.
ForgetPeer(p, s) == roles' = [roles EXCEPT ![p][s] = [role |-> @.role, peer |-> None]]

Forget(p, s) == roles' = [roles EXCEPT ![p][s] = NoRole]

\* requestIntroduction, with a mediator that counts as open.
RequestIntroduction(s) ==
  /\ request[s] = "none"
  /\ Via[s] \in openPeers[By[s]]
  /\ request' = [request EXCEPT ![s] = "pending"]
  /\ wire' = Sent(wire, By[s], Via[s], Msg("REQUEST", s, "none", None))
  /\ UNCHANGED <<ends, pc, tables, lateClose, leaves,
                 mediating, assigning, roles, buffered, awaiting, listening>>

\* INTRO_REQUEST: picks an open peer and assigns the offerer; AssignAnswerer is
\* the rest.  Which open peer comes first in the set is left open.
HandleRequest(p, k) ==
  /\ Receive(p, k, "REQUEST")
  /\ LET s == Head(wire[p][k]).session
         asker == Other(k, p)
         candidates == openPeers[p] \ (Exclude[s] \cup {asker, p})
     IN  \/ /\ candidates = {}
            /\ wire' = Sent(Taken(p, k), p, asker, Msg("FAILED", s, "none", None))
            /\ UNCHANGED <<mediating, assigning>>
         \/ \E c \in candidates :
              /\ mediating' = [mediating EXCEPT ![s] = c]
              /\ assigning' = [assigning EXCEPT ![s] = c]
              /\ wire' = Sent(Taken(p, k), p, asker, Msg("ASSIGN", s, "offerer", c))
  /\ UNCHANGED <<ends, pc, tables, lateClose, leaves,
                 request, roles, buffered, awaiting, listening>>

\* Mutant: the second assignment goes to the asker again.
AssignAsker(p, s) ==
  /\ p = Via[s] /\ assigning[s] # None
  /\ assigning' = [assigning EXCEPT ![s] = None]
  /\ wire' = Sent(wire, p, By[s], Msg("ASSIGN", s, "answerer", By[s]))
  /\ UNCHANGED <<ends, pc, tables, lateClose, leaves,
                 request, mediating, roles, buffered, awaiting, listening>>

\* The second send of the INTRO_REQUEST handler.
AssignAnswerer(p, s) ==
  /\ p = Via[s] /\ assigning[s] # None
  /\ assigning' = [assigning EXCEPT ![s] = None]
  /\ wire' = Sent(wire, p, assigning[s], Msg("ASSIGN", s, "answerer", By[s]))
  /\ UNCHANGED <<ends, pc, tables, lateClose, leaves,
                 request, mediating, roles, buffered, awaiting, listening>>

\* _processRelay of this blob at p in role r, up to the first await.
ProcessRelay(p, s, r, blob, w) ==
  \/ /\ r.role = "answerer" /\ blob = "offer"
     /\ AcceptOffer(p, s)
     /\ awaiting' = [awaiting EXCEPT ![p] = @ \cup {s}]
     /\ roles' = [roles EXCEPT ![p][s] = r]
     /\ wire' = w
     /\ UNCHANGED request
  \/ /\ r.role = "answerer" /\ (blob # "offer" \/ links[p][r.peer] # None)
     /\ Fail(w, p, s)
     /\ Forget(p, s)
     /\ UNCHANGED <<pc, awaiting>>
  \/ /\ r.role = "offerer" /\ blob = "answer"
     /\ CompleteConnection(p, r.peer, s)
     /\ request' = Settled(p, s, "resolved")
     /\ Forget(p, s)
     /\ wire' = w
     /\ UNCHANGED awaiting
  \/ /\ r.role = "offerer" /\ (blob # "answer" \/ CompletionThrows(p, r.peer))
     /\ Fail(w, p, s)
     /\ Forget(p, s)
     /\ UNCHANGED <<pc, awaiting>>

\* INTRO_ASSIGN.  A createOfferFor that throws leaves the role behind.
HandleAssign(p, k) ==
  /\ Receive(p, k, "ASSIGN")
  /\ LET m == Head(wire[p][k])
         s == m.session
         r == [role |-> m.body, peer |-> m.peer]
     IN
     \/ /\ r.role = "offerer"
        /\ roles' = [roles EXCEPT ![p][s] = r]
        /\ \/ /\ CreateOffer(p, r.peer, s)
              /\ awaiting' = [awaiting EXCEPT ![p] = @ \cup {s}]
              /\ wire' = Taken(p, k)
              /\ UNCHANGED request
           \/ /\ links[p][r.peer] # None
              /\ Fail(Taken(p, k), p, s)
              /\ UNCHANGED <<ends, pc, tables, lateClose, awaiting>>
        /\ UNCHANGED buffered
     \/ /\ r.role = "answerer" /\ buffered[p][s] = "none"
        /\ roles' = [roles EXCEPT ![p][s] = r]
        /\ wire' = Taken(p, k)
        /\ UNCHANGED <<ends, pc, tables, lateClose, request, buffered, awaiting>>
     \/ /\ r.role = "answerer" /\ buffered[p][s] # "none"
        /\ buffered' = [buffered EXCEPT ![p][s] = "none"]
        /\ ProcessRelay(p, s, r, buffered[p][s], Taken(p, k))
        /\ UNCHANGED <<ends, tables, lateClose>>
  /\ UNCHANGED <<leaves, mediating, assigning, listening>>

\* createOfferFor returns, or throws: the offer goes to the mediator, or a
\* failure does.
OfferReady(p, s) ==
  /\ s \in awaiting[p] /\ p = By[s]
  /\ awaiting' = [awaiting EXCEPT ![p] = @ \ {s}]
  /\ \/ /\ Offered(p, s)
        /\ wire' = Sent(wire, p, Via[s], Msg("RELAY", s, "offer", None))
        /\ UNCHANGED request
     \/ /\ s \in MayFail \/ pc[p][s] = "closed"
        /\ Fail(wire, p, s)
        /\ UNCHANGED pc
  /\ UNCHANGED <<ends, tables, lateClose, leaves, mediating, assigning, roles, buffered, listening>>

\* acceptOffer returns, or throws: the rest of _processRelay at the answerer.
AnswerReady(p, s) ==
  /\ s \in awaiting[p] /\ p # By[s]
  /\ awaiting' = [awaiting EXCEPT ![p] = @ \ {s}]
  /\ Forget(p, s)
  /\ \/ /\ Answered(p, s)
        /\ wire' = Sent(wire, p, Via[s], Msg("RELAY", s, "answer", None))
        /\ UNCHANGED request
     \/ /\ s \in MayFail
        /\ Fail(wire, p, s)
        /\ UNCHANGED pc
  /\ UNCHANGED <<ends, tables, lateClose, leaves, mediating, assigning, buffered, listening>>

\* The participant of s that q is not, as its mediator sees them.
OtherSide(s, q) == IF q = By[s] THEN mediating[s] ELSE By[s]

Mediates(p, s) == p = Via[s] /\ mediating[s] # None

\* INTRO_RELAY: forwarded, buffered or processed.
HandleRelay(p, k) ==
  /\ Receive(p, k, "RELAY")
  /\ LET m == Head(wire[p][k])
         s == m.session
     IN
     \/ /\ Mediates(p, s)
        /\ wire' = Sent(Taken(p, k), p, OtherSide(s, Other(k, p)), m)
        /\ UNCHANGED <<pc, request, roles, buffered, awaiting>>
     \/ /\ ~Mediates(p, s) /\ roles[p][s] = NoRole
        /\ buffered' = [buffered EXCEPT ![p][s] = m.body]
        /\ wire' = Taken(p, k)
        /\ UNCHANGED <<pc, request, roles, awaiting>>
     \/ /\ ~Mediates(p, s) /\ roles[p][s] # NoRole
        /\ ProcessRelay(p, s, roles[p][s], m.body, Taken(p, k))
        /\ UNCHANGED buffered
  /\ UNCHANGED <<ends, tables, lateClose, leaves, mediating, assigning, listening>>

\* INTRO_FAILED: forwarded once, or the end of the session at a participant.
HandleFailed(p, k) ==
  /\ Receive(p, k, "FAILED")
  /\ LET m == Head(wire[p][k])
         s == m.session
     IN
     \/ /\ Mediates(p, s)
        /\ wire' = Sent(Taken(p, k), p, OtherSide(s, Other(k, p)), m)
        /\ mediating' = [mediating EXCEPT ![s] = None]
        /\ UNCHANGED <<request, roles>>
     \/ /\ ~Mediates(p, s)
        /\ request' = Settled(p, s, "rejected")
        /\ Forget(p, s)
        /\ wire' = Taken(p, k)
        /\ UNCHANGED mediating
  /\ UNCHANGED <<ends, pc, tables, lateClose, leaves, assigning, buffered, awaiting, listening>>

\* A message that arrives while nobody is subscribed is lost.
Unheard(p, k) ==
  /\ ~listening[p] /\ pc[p][k] = "open" /\ wire[p][k] # <<>>
  /\ wire' = Taken(p, k)
  /\ UNCHANGED <<ends, pc, tables, lateClose, leaves, sessionVars>>

\* stop(): what is under way goes on.
Stop(p) ==
  /\ p \in Leavers /\ leaves < MaxLeaves /\ listening[p]
  /\ leaves' = leaves + 1
  /\ listening' = [listening EXCEPT ![p] = FALSE]
  /\ UNCHANGED <<ends, pc, tables, lateClose, wire,
                 request, mediating, assigning, roles, buffered, awaiting>>

\* start(), again.
Start(p) ==
  /\ ~listening[p]
  /\ listening' = [listening EXCEPT ![p] = TRUE]
  /\ UNCHANGED <<transportVars, request, mediating, assigning, roles, buffered, awaiting>>
-----------------------------------------------------------------------------
Handler(p) ==
  \/ \E k \in Attempt : \/ HandleRequest(p, k) \/ HandleAssign(p, k)
                        \/ HandleRelay(p, k) \/ HandleFailed(p, k)
                        \/ Unheard(p, k)
  \/ \E s \in Session : AssignAnswerer(p, s) \/ OfferReady(p, s) \/ AnswerReady(p, s)

Next ==
  \/ \E p \in Peer : Handler(p)
  \/ \E p \in Peer : TransportNext(p) /\ UNCHANGED sessionVars
  \/ \E p \in Peer : Stop(p) \/ Start(p)
  \/ \E s \in Session : RequestIntroduction(s)

Spec == Init /\ [][Next]_vars

\* Bytes in an open channel arrive and handlers go on; the wait for candidates
\* is bounded by a timer (webrtc-transport.js:56).  That a connection ever opens
\* is not assumed.
FairSpec == Spec /\ WF_vars(\E p \in Peer : Handler(p))
-----------------------------------------------------------------------------
(* Properties.                                                             *)

\* As long as nobody disconnects or stops, every request is settled, though there is no
\* timeout (introducer.js:67-72): nothing is lost or waited for in vain when
\* the two offer to each other at once, the offer overtakes the assignment or
\* a failure has to be passed on.
RequestsSettle ==
  \A s \in Session :
    request[s] = "pending" ~> (request[s] \in {"resolved", "rejected"} \/ leaves > 0)

\* The assignment of s at p is on its way.
AssignmentDue(p, s) ==
  \/ assigning[s] = p
  \/ \E k \in Attempt : \E m \in Range(wire[p][k]) : m.type = "ASSIGN" /\ m.session = s

\* A relay that overtook its assignment (introducer.js:44-48) is processed exactly
\* once: while it is buffered no role is known, and the assignment will come.
BufferedIsAwaited ==
  leaves = 0 =>
    \A p \in Peer, s \in Session :
      buffered[p][s] # "none" => roles[p][s] = NoRole /\ AssignmentDue(p, s)

\* The offer of s has been accepted at the other end.
Accepted(s) == ends[s] # <<>> /\ pc[ends[s][2]][s] # "none"

\* What an introduction promises, see Introduction.
Promise == INSTANCE Introduction WITH
             request <- request, accepted <- [s \in Session |-> Accepted(s)]
ImplementsIntroduction == Promise!Spec
=============================================================================
