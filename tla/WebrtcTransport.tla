--------------------------- MODULE WebrtcTransport ---------------------------
(***************************************************************************)
(* The WebrtcTransport (webrtc-transport.js) of every peer, and what the   *)
(* browsers' RTCPeerConnections do between them.                           *)
(*                                                                         *)
(* An attempt is one offer and what comes of it: at most one peer          *)
(* connection, with its data channel, at each of its two ends.  The blobs  *)
(* of the attempts in ByHand are carried by people; the Introducer carries *)
(* those of the others.                                                    *)
(***************************************************************************)
EXTENDS Integers, FiniteSets, Sequences, Functions

CONSTANTS
  Peer,
  Attempt,
  ByHand,
  Established,     \* the attempts whose connection is open at first, each with
                   \* its two ends: the offering and the answering peer
  None,
  Carriers,        \* who starts connections by hand, and with whom
  Leavers,         \* the peers that may call disconnect(), or stop() above it
  MaxLeaves        \* bound: how many such calls there are

ASSUME AttemptAssumption ==
  /\ None \notin Peer \cup Attempt
  /\ ByHand \subseteq Attempt
  /\ DOMAIN Established \subseteq Attempt
  /\ Carriers \subseteq Peer \X Peer
  /\ \A k \in DOMAIN Established : /\ Established[k] \in Peer \X Peer
                                   /\ Established[k][1] # Established[k][2]
  /\ \A j, k \in DOMAIN Established :
       Range(Established[j]) = Range(Established[k]) => j = k
  /\ MaxLeaves \in Nat

VARIABLES
  ends,        \* ends[k]: the offering and the answering peer (<<>>: no offer yet)
  pc,          \* pc[p][k]: p's peer connection and channel of attempt k
  links,       \* _links: links[p][q] is the attempt in p's table under q, or None
  openPeers,   \* _openPeers of p
  lateClose,   \* channels p has closed whose close event may still come
  wire,        \* wire[p][k]: the messages that p has still to receive over k
  leaves       \* the calls of disconnect() and of stop() so far

tables == <<links, openPeers>>
transportVars == <<ends, pc, tables, lateClose, wire, leaves>>

PcState ==
  {"none",
   "gathering",  \* created by createOfferFor, which has not returned yet
   "offered",    \* the offer is handed out
   "complete",   \* the answer is set; the channel is connecting
   "crossed",    \* the answer of another attempt is set
   "answering",  \* created by acceptOffer, which has not returned yet
   "answered",   \* the answer is handed out; no channel is announced
   "wired",      \* ondatachannel has announced the channel
   "open", "closed"}

Other(k, p) == IF p = ends[k][1] THEN ends[k][2] ELSE ends[k][1]

TransportInit ==
  /\ ends = [k \in Attempt |-> IF k \in DOMAIN Established THEN Established[k] ELSE <<>>]
  /\ pc = [p \in Peer |-> [k \in Attempt |->
             IF k \in DOMAIN Established /\ p \in Range(Established[k]) THEN "open" ELSE "none"]]
  /\ links = [p \in Peer |-> [q \in Peer |->
                LET between == {k \in DOMAIN Established :
                                  p # q /\ Range(Established[k]) = {p, q}}
                IN  IF between = {} THEN None ELSE CHOOSE k \in between : TRUE]]
  /\ openPeers = [p \in Peer |-> {q \in Peer : links[p][q] # None}]
  /\ lateClose = [p \in Peer |-> {}]
  /\ wire = [p \in Peer |-> [k \in Attempt |-> <<>>]]
  /\ leaves = 0
-----------------------------------------------------------------------------
(* What the callers of the transport do.                                   *)

\* createOfferFor(q) up to its first await: a connection of its own, in the
\* table before anything is known of the other side.  It throws when there is
\* a link to q, pending or open.
CreateOffer(p, q, k) ==
  /\ p # q /\ ends[k] = <<>>
  /\ links[p][q] = None
  /\ ends' = [ends EXCEPT ![k] = <<p, q>>]
  /\ pc' = [pc EXCEPT ![p][k] = "gathering"]
  /\ links' = [links EXCEPT ![p][q] = k]
  /\ UNCHANGED <<openPeers, lateClose>>

\* The end of createOfferFor: candidates are gathered, or the wait for them has
\* timed out.  A connection closed meanwhile still has its description.
Offered(p, k) ==
  pc' = [pc EXCEPT ![p][k] = IF @ = "gathering" THEN "offered" ELSE @]

\* Mutant: acceptOffer does not look whether there is a link already.
AcceptOfferUnchecked(q, k) ==
  /\ pc[q][k] = "none"
  /\ pc' = [pc EXCEPT ![q][k] = "answering"]

\* acceptOffer up to its first await.  The new connection is in no table until
\* its channel is announced; only the table is checked.
AcceptOffer(q, k) ==
  /\ links[q][ends[k][1]] = None
  /\ pc[q][k] = "none"
  /\ pc' = [pc EXCEPT ![q][k] = "answering"]

\* The end of acceptOffer.
Answered(q, k) ==
  pc' = [pc EXCEPT ![q][k] = "answered"]

\* completeConnection(q, ..) may throw: there is no link, or setRemoteDescription is
\* called in the wrong state, as it is until setLocalDescription has returned (135).
CompletionThrows(p, q) == links[p][q] # None => pc[p][links[p][q]] # "offered"

\* It sets the answer of k on whatever connection is in the table, as soon as that
\* one has its own description; with the answer of another attempt it will never open.
CompleteConnection(p, q, k) ==
  /\ links[p][q] # None /\ pc[p][links[p][q]] \in {"gathering", "offered"}
  /\ pc' = [pc EXCEPT ![p][links[p][q]] = IF k = links[p][q] THEN "complete" ELSE "crossed"]

\* The bytes in transit after p sends m to q: nothing happens, and nothing is
\* said, when the channel of p's link is not open.
Sent(w, p, q, m) ==
  LET k == links[p][q] IN
  IF k # None /\ pc[p][k] = "open" /\ pc[q][k] # "closed"
  THEN [w EXCEPT ![q][k] = Append(@, m)] ELSE w

\* _closeLink for every peer of Q that p has a link to.  The channels of gone
\* have closed already; the others get their close event later, or never.
CloseLinks(p, Q, gone) ==
  LET linked  == {q \in Q : links[p][q] # None}
      closing == {links[p][q] : q \in linked}
  IN
  /\ links' = [links EXCEPT ![p] = [q \in Peer |-> IF q \in linked THEN None ELSE @[q]]]
  /\ openPeers' = [openPeers EXCEPT ![p] = @ \ linked]
  /\ pc' = [pc EXCEPT ![p] = [k \in Attempt |->
              IF k \in closing \cup gone THEN "closed" ELSE @[k]]]
  /\ wire' = [wire EXCEPT ![p] = [k \in Attempt |->
                IF k \in closing \cup gone THEN <<>> ELSE @[k]]]
  /\ lateClose' = [lateClose EXCEPT ![p] = (@ \cup closing) \ gone]

\* disconnect(): every link in the table.
Disconnect(p) ==
  /\ p \in Leavers
  /\ leaves < MaxLeaves
  /\ leaves' = leaves + 1
  /\ CloseLinks(p, Peer, {})
  /\ UNCHANGED ends
-----------------------------------------------------------------------------
(* What the browser calls.                                                 *)

\* ondatachannel at the answering end: the channel goes into the table,
\* whatever is there.
OnDataChannel(q, k) ==
  /\ pc[q][k] = "answered"
  /\ pc[Other(k, q)][k] \in {"complete", "open"}
  /\ pc' = [pc EXCEPT ![q][k] = "wired"]
  /\ links' = [links EXCEPT ![q][Other(k, q)] = k]
  /\ UNCHANGED <<ends, openPeers, lateClose, wire, leaves>>

\* onopen: the peer counts as open, and its joining is reported.
OnOpen(p, k) ==
  /\ \/ pc[p][k] = "complete" /\ pc[Other(k, p)][k] \in {"answered", "wired", "open"}
     \/ pc[p][k] = "wired"
  /\ pc' = [pc EXCEPT ![p][k] = "open"]
  /\ openPeers' = [openPeers EXCEPT ![p] = @ \cup {Other(k, p)}]
  /\ UNCHANGED <<ends, links, lateClose, wire, leaves>>

\* onclose, because the other end closed or for a close() of p's own: closes the
\* link to that peer, whatever channel is in it now.
OnClose(p, k) ==
  /\ \/ k \in lateClose[p]
     \/ pc[p][k] \in {"complete", "wired", "open"} /\ pc[Other(k, p)][k] = "closed"
  /\ CloseLinks(p, {Other(k, p)}, {k})
  /\ UNCHANGED <<ends, leaves>>

\* People make a connection by hand: they carry the two blobs over.
Carry(p, k) ==
  /\ \/ /\ \E q \in Peer : <<p, q>> \in Carriers /\ CreateOffer(p, q, k)
        /\ UNCHANGED <<wire, leaves>>
     \/ /\ \/ pc[p][k] = "gathering" /\ Offered(p, k)
           \/ /\ ends[k] # <<>> /\ p = ends[k][2]
              /\ pc[ends[k][1]][k] \notin {"none", "gathering"}
              /\ AcceptOffer(p, k)
           \/ pc[p][k] = "answering" /\ Answered(p, k)
           \/ /\ ends[k] # <<>> /\ p = ends[k][1]
              /\ pc[ends[k][2]][k] \notin {"none", "answering"}
              /\ CompleteConnection(p, ends[k][2], k)
        /\ UNCHANGED <<ends, tables, lateClose, wire, leaves>>

TransportNext(p) ==
  \/ \E k \in Attempt : OnDataChannel(p, k) \/ OnOpen(p, k) \/ OnClose(p, k)
  \/ \E k \in ByHand : Carry(p, k)
  \/ Disconnect(p)
-----------------------------------------------------------------------------
(* Properties.                                                             *)

\* _openPeers is "the subset of _links whose channel has genuinely opened"
\* (webrtc-transport.js:76), although the two are written by events of
\* different channels, and ondatachannel may replace a link: whoever peers()
\* names can be sent to.
OpenPeersAreLinked ==
  \A p, q \in Peer : q \in openPeers[p] =>
    links[p][q] # None /\ pc[p][links[p][q]] = "open"

\* disconnect() and send() know the connections of the table only (lines 86, 94):
\* one whose answer is set or whose channel is announced is never lost from it,
\* whatever other attempts between the two are under way or end late.  A pending
\* offer can be: ondatachannel replaces it and nobody closes it (line 106).
ConnectedIsLinked ==
  \A p \in Peer, k \in Attempt :
    pc[p][k] \in {"complete", "wired", "open"} => links[p][Other(k, p)] = k

\* Two peers that offer to each other at the same time, by hand or through
\* introductions, never get two connections: an attempt is refused while another
\* is in the table (lines 130, 152), though an answering side is in no table.
AtMostOneConnection ==
  \A j, k \in Attempt :
    /\ ends[j] # <<>> /\ ends[k] # <<>>
    /\ Range(ends[j]) = Range(ends[k])
    /\ \A p \in Range(ends[j]) : pc[p][j] = "open" /\ pc[p][k] = "open"
    => j = k
=============================================================================
