----------------------------- MODULE DomusProofs -----------------------------
(***************************************************************************)
(* PermitsExact, RendezvousExact and OneLiveHandle of Domus, for every set *)
(* of peers and links, every limit and every workload: the inductive       *)
(* invariant DomusInv, what the ways a link moves do to its parts, and one *)
(* lemma per group of steps.                                               *)
(***************************************************************************)
EXTENDS Domus, TLAPS

\* States of a link that no handle has yet.
Unhandled == {"unused", "backlog", "spawned", "refused", "authenticating",
              "sending_ok", "sending_err", "queued", "accepted", "checked"}

\* States of a link some handle has.
Handed == {"handed", "excess", "hello", "setup", "open", "early", "adopted",
           "zombie", "rejected", "asked", "served", "dialing", "registered",
           "waiting", "challenged"}

Over == {"closed", "failed", "unreached"}

\* States of a dial before its callback is registered, and after it came.
Uncalled == {"unused", "checked", "asked", "served", "dialing"}
Called == {"challenged", "setup", "open", "early", "adopted", "zombie", "rejected"}

LinkRecords == [at : Unhandled \cup Handed \cup Over, peer : Peers \cup {Foreign, Nobody},
                handle : Nat, kind : Kinds]

HandleRecords == [peer : Peers, closing : BOOLEAN, task : {"running", "ended"},
                  deaf : BOOLEAN, told : BOOLEAN, handshakes : Int,
                  had_primary : BOOLEAN, grace : {"none", "told", "begun", "drained"}]

WorkloadRecords == [conns : Nat, dials : Nat, queries : Nat, peers : SUBSET Peers,
                    dialers : SUBSET Peers, kinds : SUBSET Kinds, stops : BOOLEAN]

\* What the accepted channel holds.
Results == [from : Conns, ok : BOOLEAN]

DomusTypeOK ==
  /\ workload \in WorkloadRecords
  /\ link \in [Links -> LinkRecords]
  /\ called \in [Conns -> Links]
  /\ inflight \in Int
  /\ accepted \in Seq(Results)
  /\ pending \in SUBSET Dials /\ abandoned \in SUBSET Dials
  /\ reply \in [Dials -> Peers \cup {"open", "dropped"}]
  /\ handles \in Seq(HandleRecords)
  /\ peers \in [Peers -> 0..Len(handles)]

\* A stream in the accepted channel is there once.
ChannelExact ==
  /\ \A i \in DOMAIN accepted : accepted[i].ok => At(accepted[i].from) = "queued"
  /\ \A i, j \in DOMAIN accepted :
        accepted[i].ok /\ accepted[j].ok /\ accepted[i].from = accepted[j].from => i = j

\* Links and handles agree on who has whom.
HandlesMatch ==
  /\ \A l \in Links : At(l) \in Unhandled => link[l].handle = NoHandle
  /\ \A l \in Links : At(l) \in Handed => link[l].handle # NoHandle
  /\ \A l \in Links : link[l].handle # NoHandle =>
        link[l].handle \in Handles /\ handles[link[l].handle].peer = link[l].peer
  /\ \A c \in Conns : At(c) # "unused" => link[c].peer \in Peers
  /\ \A d \in Dials : At(d) # "unused" => link[d].peer \in Peers \cup {Foreign}

\* The oneshot of a dial: unresolved until its callback is registered, and
\* resolved by the peer it dialled if it went on.
RepliesMatch ==
  /\ \A d \in Dials : At(d) \in Uncalled => reply[d] = "open"
  /\ \A d \in Dials : At(d) \in Called => reply[d] \in Peers
  /\ \A d \in Dials : reply[d] \in Peers => reply[d] = link[d].peer
  /\ \A d \in abandoned : At(d) \in Over

\* An address leads to a handle of its own, and to the live one.
LiveHandles ==
  /\ \A p \in Peers : peers[p] # NoHandle => handles[peers[p]].peer = p
  /\ \A h \in Handles :
        handles[h].task = "running" /\ ~handles[h].closing => peers[handles[h].peer] = h

\* All but the count of the gate.
LinksExact ==
  DomusTypeOK /\ ChannelExact /\ HandlesMatch /\ RepliesMatch /\ LiveHandles /\ RendezvousExact

DomusInv == LinksExact /\ PermitsExact

-----------------------------------------------------------------------------
(* The gate counts links: one move of one link changes it by one.           *)

Authenticating == {c \in Conns : At(c) = "authenticating"}
Refused == {c \in Conns : At(c) = "refused"}

\* PermitsExact in terms of the two sets the gate counts.
LEMMA PermitsCount ==
  PermitsExact <=> /\ inflight = Cardinality(Authenticating) + Cardinality(Refused)
                   /\ Cardinality(Authenticating) <= HandshakeTotal
  BY DEF PermitsExact, Authenticating, Refused

\* What counting them needs: a part of a finite set is finite, a finite set has
\* a size, and one element more or less changes it by one.
Counting ==
  /\ \A S : IsFiniteSet(S) => Cardinality(S) \in Nat /\ \A T : T \subseteq S => IsFiniteSet(T)
  /\ \A S, x : IsFiniteSet(S) /\ x \in S => Cardinality(S \ {x}) = Cardinality(S) - 1
  /\ \A S, x : IsFiniteSet(S) /\ x \notin S => Cardinality(S \cup {x}) = Cardinality(S) + 1
  /\ Cardinality({}) = 0

\* Those sets are finite, so they have a size.
LEMMA GateFinite ==
  ASSUME Counting
  PROVE  /\ IsFiniteSet(Conns) /\ IsFiniteSet(Authenticating) /\ IsFiniteSet(Refused)
         /\ Cardinality(Authenticating) \in Nat /\ Cardinality(Refused) \in Nat
<1>1. IsFiniteSet(Conns)
  BY ConnectBackAssumption DEF Counting
<1>2. IsFiniteSet(Authenticating) /\ IsFiniteSet(Refused)
  BY <1>1 DEF Counting, Authenticating, Refused
<1> QED BY <1>1, <1>2, Zenon DEF Counting

\* No link passes the gate or leaves it.
LEMMA PermitsKept ==
  ASSUME PermitsExact, inflight' = inflight,
         \A c \in Conns : /\ At(c)' = "authenticating" <=> At(c) = "authenticating"
                          /\ At(c)' = "refused" <=> At(c) = "refused"
  PROVE  PermitsExact'
<1>1. Authenticating' = Authenticating /\ Refused' = Refused
  BY DEF Authenticating, Refused
<1> QED BY <1>1 DEF PermitsExact, Authenticating, Refused

\* One link enters the gate, is refused at it, or leaves it.
LEMMA PermitsMove ==
  ASSUME Counting, PermitsExact, NEW c \in Conns,
         \A x \in Conns \ {c} : At(x)' = At(x),
         \/ /\ At(c) \in {"authenticating", "refused"}
            /\ At(c)' \notin {"authenticating", "refused"}
            /\ inflight' = inflight - 1
         \/ /\ At(c) \notin {"authenticating", "refused"}
            /\ At(c)' = IF inflight + 1 > HandshakeTotal THEN "refused" ELSE "authenticating"
            /\ inflight' = inflight + 1
  PROVE  PermitsExact'
<1> USE GateFinite
<1> DEFINE A == Authenticating
           R == Refused
<1>0. inflight = Cardinality(A) + Cardinality(R) /\ Cardinality(A) <= HandshakeTotal
  BY PermitsCount
<1>h. HandshakeTotal \in Nat
  BY ConnectBackAssumption
<1>1. SUFFICES /\ inflight' = Cardinality(A') + Cardinality(R')
               /\ Cardinality(A') <= HandshakeTotal
  BY DEF PermitsExact, Authenticating, Refused
<1>2. CASE At(c) = "authenticating" /\ At(c)' \notin {"authenticating", "refused"} /\ inflight' = inflight - 1
  <2>1. A' = A \ {c} /\ R' = R /\ c \in A
    BY <1>2 DEF Authenticating, Refused
  <2>2. Cardinality(A') = Cardinality(A) - 1
    BY <2>1, Zenon DEF Counting
  <2> QED BY <1>0, <1>h, <1>2, <2>1, <2>2
<1>3. CASE At(c) = "refused" /\ At(c)' \notin {"authenticating", "refused"} /\ inflight' = inflight - 1
  <2>1. R' = R \ {c} /\ A' = A /\ c \in R
    BY <1>3 DEF Authenticating, Refused
  <2>2. Cardinality(R') = Cardinality(R) - 1
    BY <2>1, Zenon DEF Counting
  <2> QED BY <1>0, <1>h, <1>3, <2>1, <2>2
<1>4. CASE /\ At(c) \notin {"authenticating", "refused"} /\ inflight' = inflight + 1
           /\ At(c)' = "refused"
  <2>1. R' = R \cup {c} /\ A' = A /\ c \notin R
    BY <1>4 DEF Authenticating, Refused
  <2>2. Cardinality(R') = Cardinality(R) + 1
    BY <2>1, Zenon DEF Counting
  <2> QED BY <1>0, <1>h, <1>4, <2>1, <2>2
<1>5. CASE /\ At(c) \notin {"authenticating", "refused"} /\ inflight' = inflight + 1
           /\ At(c)' = "authenticating" /\ ~(inflight + 1 > HandshakeTotal)
  <2>1. A' = A \cup {c} /\ R' = R /\ c \notin A
    BY <1>5 DEF Authenticating, Refused
  <2>2. Cardinality(A') = Cardinality(A) + 1
    BY <2>1, Zenon DEF Counting
  <2> QED BY <1>0, <1>h, <1>5, <2>1, <2>2
<1> QED BY <1>2, <1>3, <1>4, <1>5

-----------------------------------------------------------------------------
(* Most steps move links along and leave the books about them alone.        *)

\* A link may go from a to b and keep its handle.
KeepsHandle(a, b) ==
  /\ a # "unused"
  /\ b \in Unhandled => a \in Unhandled
  /\ b \in Handed => a \in Handed

\* Dial d may go from a to b with its oneshot and its pending callback as they are.
KeepsReply(d, a, b) ==
  /\ b \in Uncalled => a \in Uncalled
  /\ b \in Called => reply[d] \in Peers
  /\ a \in Over => b \in Over
  /\ reply[d] = "open" =>
       (a \in {"registered", "waiting"} <=> b \in {"registered", "waiting"})

\* No handle comes alive, and none changes its peer.
HandlesWane ==
  /\ handles' \in Seq(HandleRecords) /\ Len(handles') = Len(handles)
  /\ \A h \in Handles :
        /\ handles'[h].peer = handles[h].peer
        /\ handles'[h].task = "running" /\ ~handles'[h].closing
              => handles[h].task = "running" /\ ~handles[h].closing

\* ChannelExact stays true while nothing enters or leaves the accepted channel
\* and no stream in it moves.
LEMMA ChannelKept ==
  ASSUME DomusTypeOK, ChannelExact, accepted' = accepted,
         \A x \in Conns : At(x) = "queued" => At(x)' = "queued"
  PROVE  ChannelExact'
<1>1. \A i \in DOMAIN accepted : accepted[i] \in Results
  BY DEF DomusTypeOK
<1>2. \A i \in DOMAIN accepted : accepted[i].from \in Conns
  BY <1>1 DEF Results
<1> QED BY <1>2 DEF ChannelExact

\* HandlesMatch and LiveHandles stay true while links keep their handles and the
\* map of the transport stays as it is.
LEMMA HandlesKept ==
  ASSUME DomusTypeOK, HandlesMatch, LiveHandles, HandlesWane, peers' = peers,
         \A x \in Links : /\ link'[x].peer = link[x].peer
                          /\ link'[x].handle = link[x].handle
                          /\ At(x)' = At(x) \/ KeepsHandle(At(x), At(x)')
  PROVE  HandlesMatch' /\ LiveHandles'
<1> USE DEF At, Links
<1>0. /\ Handles' = Handles /\ Handles = 1..Len(handles)
      /\ handles \in Seq(HandleRecords) /\ peers \in [Peers -> 0..Len(handles)]
  BY DEF DomusTypeOK, Handles, HandlesWane
<1>1. \A l \in Links : At(l)' \in Unhandled => link'[l].handle = NoHandle
  BY DEF HandlesMatch, KeepsHandle
<1>2. \A l \in Links : At(l)' \in Handed => link'[l].handle # NoHandle
  BY DEF HandlesMatch, KeepsHandle
<1>3. \A l \in Links : link'[l].handle # NoHandle =>
        link'[l].handle \in Handles' /\ handles'[link'[l].handle].peer = link'[l].peer
  BY <1>0 DEF HandlesMatch, HandlesWane
<1>4. /\ \A c \in Conns : At(c)' # "unused" => link'[c].peer \in Peers
      /\ \A d \in Dials : At(d)' # "unused" => link'[d].peer \in Peers \cup {Foreign}
  BY DEF HandlesMatch, KeepsHandle
<1>5. LiveHandles'
  BY <1>0 DEF LiveHandles, HandlesWane, NoHandle
<1> QED BY <1>1, <1>2, <1>3, <1>4, <1>5 DEF HandlesMatch, NoHandle

\* RepliesMatch and RendezvousExact stay true while the rendezvous is left alone
\* and dials move as KeepsReply allows.
LEMMA RepliesKept ==
  ASSUME DomusTypeOK, RepliesMatch, RendezvousExact,
         UNCHANGED <<pending, reply, abandoned>>,
         \A d \in Dials : /\ link'[d].peer = link[d].peer
                          /\ At(d)' = At(d) \/ KeepsReply(d, At(d), At(d)')
  PROVE  RepliesMatch' /\ RendezvousExact'
<1> USE DEF At
<1>1. RepliesMatch'
  <2>1. abandoned \subseteq Dials
    BY DEF DomusTypeOK
  <2> QED BY <2>1 DEF RepliesMatch, KeepsReply
<1>2. RendezvousExact'
  <2>1. \A d \in Dials : At(d)' \in {"challenged", "setup", "open", "adopted"} => reply[d] \in Peers
    BY DEF RepliesMatch, KeepsReply, Called
  <2>2. \A d \in Dials : reply[d] = "open" =>
          (At(d) \in {"registered", "waiting"} <=> At(d)' \in {"registered", "waiting"})
    BY DEF KeepsReply
  <2> QED BY <2>1, <2>2 DEF RepliesMatch, RendezvousExact
<1> QED BY <1>1, <1>2

\* The three together: links move, and the books are left alone.
LEMMA LinksMove ==
  ASSUME LinksExact, HandlesWane, DomusTypeOK',
         \A x \in Links : /\ link'[x].peer = link[x].peer
                          /\ link'[x].handle = link[x].handle
                          /\ \/ At(x)' = At(x)
                             \/ /\ At(x) # "queued" /\ KeepsHandle(At(x), At(x)')
                                /\ x \in Dials => KeepsReply(x, At(x), At(x)'),
         UNCHANGED <<accepted, pending, reply, abandoned, peers>>
  PROVE  LinksExact'
<1> USE DEF LinksExact, Links
<1>1. ChannelExact'
  BY ChannelKept
<1>2. HandlesMatch' /\ LiveHandles'
  BY HandlesKept
<1>3. RepliesMatch' /\ RendezvousExact'
  BY RepliesKept
<1> QED BY <1>1, <1>2, <1>3

\* What Move does.
LEMMA MoveLink ==
  ASSUME link \in [Links -> LinkRecords], NEW l \in Links,
         NEW at \in Unhandled \cup Handed \cup Over, Move(l, at)
  PROVE  /\ link' \in [Links -> LinkRecords]
         /\ \A x \in Links : /\ At(x)' = IF x = l THEN at ELSE At(x)
                             /\ link'[x].peer = link[x].peer
                             /\ link'[x].handle = link[x].handle
<1>1. link' \in [Links -> LinkRecords]
  BY DEF Move, LinkRecords
<1>2. \A x \in Links : /\ At(x)' = IF x = l THEN at ELSE At(x)
                       /\ link'[x].peer = link[x].peer
                       /\ link'[x].handle = link[x].handle
  BY DEF Move, LinkRecords, At
<1> QED BY <1>1, <1>2

\* A step of one link.
LEMMA MoveOne ==
  ASSUME LinksExact, HandlesWane, NEW l \in Links, NEW at \in Unhandled \cup Handed \cup Over,
         Move(l, at), At(l) # "queued", KeepsHandle(At(l), at),
         l \in Dials => KeepsReply(l, At(l), at),
         inflight' \in Int,
         UNCHANGED <<workload, called, accepted, pending, reply, abandoned, peers>>
  PROVE  /\ LinksExact'
         /\ PermitsExact /\ inflight' = inflight
              /\ {At(l), at} \cap {"authenticating", "refused"} = {} => PermitsExact'
<1>0. link \in [Links -> LinkRecords]
  BY DEF LinksExact, DomusTypeOK
<1>1. link' \in [Links -> LinkRecords]
  BY <1>0, MoveLink
<1>2. DomusTypeOK'
  BY <1>1 DEF LinksExact, DomusTypeOK, HandlesWane
<1>3. \A x \in Links : /\ link'[x].peer = link[x].peer
                       /\ link'[x].handle = link[x].handle
                       /\ At(x)' = IF x = l THEN at ELSE At(x)
  BY <1>0, MoveLink
<1>4. LinksExact'
  BY <1>2, <1>3, LinksMove
<1>5. ASSUME PermitsExact, inflight' = inflight,
             {At(l), at} \cap {"authenticating", "refused"} = {}
      PROVE  PermitsExact'
  BY <1>3, <1>5, PermitsKept, Zenon DEF Links
<1> QED BY <1>4, <1>5

\* Handles that do not change at all.
LEMMA HandlesSame ==
  ASSUME DomusTypeOK, handles' = handles
  PROVE  HandlesWane
  BY ZenonT(30) DEF DomusTypeOK, HandlesWane

\* A step of the reporting side, or of the phases of Transport::shutdown.
LEMMA StutterKeeps ==
  ASSUME DomusInv, UNCHANGED connecting, UNCHANGED <<handles, peers>>
  PROVE  DomusInv'
  BY DEF DomusInv, LinksExact, connecting, DomusTypeOK, ChannelExact, HandlesMatch, RepliesMatch,
         LiveHandles, RendezvousExact, PermitsExact, Handles, At

\* Only handles change, and none comes alive.
LEMMA WaneKeeps ==
  ASSUME DomusInv, HandlesWane, UNCHANGED <<workload, link, called, inflight, accepted,
                                             pending, reply, abandoned, peers>>
  PROVE  DomusInv'
<1>1. DomusTypeOK'
  BY DEF DomusInv, LinksExact, DomusTypeOK, HandlesWane
<1>2. LinksExact'
  BY <1>1, LinksMove DEF DomusInv, At
<1>3. PermitsExact'
  BY DEF DomusInv, PermitsExact, At
<1> QED BY <1>2, <1>3 DEF DomusInv

\* Link l is used for the first time.
Appear(l, at, p) == link' = [link EXCEPT ![l].at = at, ![l].peer = p]

\* A connection comes in, or a send takes the name of a dial.
LEMMA AppearKeeps ==
  ASSUME DomusInv, NEW l \in Links, At(l) = "unused",
         NEW at, NEW p \in Peers \cup {Foreign},
         \/ l \in Conns /\ at = "backlog" /\ p \in Peers
         \/ l \in Dials /\ at \in {"checked", "failed"},
         Appear(l, at, p),
         workload' \in WorkloadRecords,
         called' \in [Conns -> Links],
         UNCHANGED <<inflight, accepted, pending, reply, abandoned, handles, peers>>
  PROVE  DomusInv'
<1> USE DEF DomusInv, LinksExact
<1>0. link \in [Links -> LinkRecords]
  BY DEF DomusTypeOK
<1>1. \A x \in Links : /\ At(x)' = IF x = l THEN at ELSE At(x)
                       /\ link'[x].peer = IF x = l THEN p ELSE link[x].peer
                       /\ link'[x].handle = link[x].handle
  BY <1>0 DEF Appear, At, LinkRecords
<1>2. DomusTypeOK'
  <2>1. link' \in [Links -> LinkRecords]
    <3>1. at \in Unhandled \cup Handed \cup Over /\ p \in Peers \cup {Foreign, Nobody}
      BY DEF Unhandled, Over
    <3>2. [link[l] EXCEPT !.at = at, !.peer = p] \in LinkRecords
      BY <1>0, <3>1, Zenon DEF LinkRecords
    <3>3. link' = [link EXCEPT ![l] = [link[l] EXCEPT !.at = at, !.peer = p]]
      BY <1>0, ZenonT(30) DEF Appear, LinkRecords
    <3> QED BY <1>0, <3>2, <3>3
  <2> QED BY <2>1 DEF DomusTypeOK
<1>3. ChannelExact'
  BY <1>1, ChannelKept DEF Links
<1>4. HandlesMatch'
  <2>1. link[l].handle = NoHandle
    BY DEF HandlesMatch, Unhandled
  <2>2. at \notin Handed
    BY DEF Handed
  <2>3. Handles' = Handles /\ Conns \cap Dials = {}
    BY ConnectBackAssumption DEF Handles
  <2>4. \A x \in Links : /\ At(x)' \in Unhandled => link'[x].handle = NoHandle
                         /\ At(x)' \in Handed => link'[x].handle # NoHandle
    BY <1>1, <2>1, <2>2, ZenonT(30) DEF HandlesMatch
  <2>5. \A x \in Links : link'[x].handle # NoHandle =>
          link'[x].handle \in Handles' /\ handles'[link'[x].handle].peer = link'[x].peer
    <3>1. \A x \in Links : link[x].handle # NoHandle =>
            link[x].handle \in Handles /\ handles[link[x].handle].peer = link[x].peer
      BY ZenonT(30) DEF HandlesMatch
    <3> QED BY <1>1, <2>1, <2>3, <3>1, ZenonT(30)
  <2>6. /\ \A c \in Conns : At(c)' # "unused" => link'[c].peer \in Peers
        /\ \A d \in Dials : At(d)' # "unused" => link'[d].peer \in Peers \cup {Foreign}
    <3>1. /\ \A c \in Conns : At(c) # "unused" => link[c].peer \in Peers
          /\ \A d \in Dials : At(d) # "unused" => link[d].peer \in Peers \cup {Foreign}
      BY DEF HandlesMatch
    <3> QED BY <1>1, <2>3, <3>1 DEF Links
  <2> QED BY <2>4, <2>5, <2>6 DEF HandlesMatch, NoHandle
<1>5. LiveHandles'
  BY DEF LiveHandles, Handles
<1>6. l \in Dials => reply[l] = "open" /\ l \notin abandoned /\ l \notin pending
  BY ConnectBackAssumption DEF RepliesMatch, RendezvousExact, Uncalled, Over
<1>7. RepliesMatch'
  <2>1. l \in Dials => at \notin Called /\ reply[l] \notin Peers
    BY <1>6, ConnectBackAssumption DEF Called
  <2>2. abandoned \subseteq Dials
    BY DEF DomusTypeOK
  <2>3. \A d \in Dials : /\ At(d)' \in Uncalled => reply[d] = "open"
                         /\ At(d)' \in Called => reply[d] \in Peers
    BY <1>1, <1>6, <2>1 DEF RepliesMatch, Links
  <2>4. \A d \in Dials : reply[d] \in Peers => reply[d] = link'[d].peer
    BY <1>1, <2>1 DEF RepliesMatch, Links
  <2>5. \A d \in abandoned : At(d)' \in Over
    BY <1>1, <1>6, <2>2 DEF RepliesMatch, Links
  <2> QED BY <2>3, <2>4, <2>5 DEF RepliesMatch
<1>8. RendezvousExact'
  BY <1>1, <1>6, ConnectBackAssumption, ZenonT(30) DEF RendezvousExact, Links
<1>9. PermitsExact'
  BY <1>1, PermitsKept, ConnectBackAssumption DEF Links
<1> QED BY <1>2, <1>3, <1>4, <1>5, <1>7, <1>8, <1>9

\* One link passes the gate, is refused, or gives its permit back.
LEMMA GateKeeps ==
  ASSUME Counting, DomusInv, NEW c \in Conns, NEW at \in Unhandled \cup Handed \cup Over,
         Move(c, at), KeepsHandle(At(c), at), At(c) # "queued",
         UNCHANGED <<workload, called, accepted, pending, reply, abandoned, handles, peers>>,
         \/ /\ At(c) \in {"authenticating", "refused"}
            /\ at \notin {"authenticating", "refused"}
            /\ inflight' = inflight - 1
         \/ /\ At(c) \notin {"authenticating", "refused"}
            /\ at = IF inflight + 1 > HandshakeTotal THEN "refused" ELSE "authenticating"
            /\ inflight' = inflight + 1
  PROVE  DomusInv'
<1>1. LinksExact'
  <2>1. LinksExact /\ HandlesWane /\ inflight' \in Int
    BY HandlesSame DEF DomusInv, LinksExact, DomusTypeOK
  <2>2. c \in Links /\ c \notin Dials
    BY ConnectBackAssumption DEF Links
  <2> QED BY <2>1, <2>2, MoveOne
<1>2. At(c)' = at /\ \A x \in Conns \ {c} : At(x)' = At(x)
  BY DEF DomusInv, LinksExact, DomusTypeOK, Links, Move, At, LinkRecords
<1>3. PermitsExact'
  BY <1>2, PermitsMove DEF DomusInv
<1> QED BY <1>1, <1>3 DEF DomusInv

\* A step of one link that the gate does not see.
LEMMA MoveKeeps ==
  ASSUME DomusInv, HandlesWane, NEW l \in Links, NEW at \in Unhandled \cup Handed \cup Over,
         Move(l, at), At(l) # "queued", KeepsHandle(At(l), at),
         l \in Dials => KeepsReply(l, At(l), at),
         {At(l), at} \cap {"authenticating", "refused"} = {},
         UNCHANGED <<workload, called, inflight, accepted, pending, reply, abandoned, peers>>
  PROVE  DomusInv'
<1>1. LinksExact /\ PermitsExact /\ inflight' = inflight /\ inflight' \in Int
  BY DEF DomusInv, LinksExact, DomusTypeOK
<1>2. UNCHANGED <<workload, called, accepted, pending, reply, abandoned, peers>>
  OBVIOUS
<1>3. LinksExact' /\ PermitsExact'
  BY <1>1, <1>2, MoveOne
<1> QED BY <1>3 DEF DomusInv

\* One handle changes and does not come alive.
LEMMA WaneByOne ==
  ASSUME DomusInv, NEW h \in Handles, NEW r \in HandleRecords,
         handles' = [handles EXCEPT ![h] = r],
         r.peer = handles[h].peer,
         r.task = "running" /\ ~r.closing => handles[h].task = "running" /\ ~handles[h].closing
  PROVE  HandlesWane
<1>1. handles \in Seq(HandleRecords) /\ Handles = 1..Len(handles)
  BY DEF DomusInv, LinksExact, DomusTypeOK, Handles
<1>2. /\ handles' \in Seq(HandleRecords) /\ Len(handles') = Len(handles)
      /\ \A k \in Handles : handles'[k] = IF k = h THEN r ELSE handles[k]
  BY <1>1
<1> QED BY <1>2 DEF HandlesWane

\* What the type invariant says of one handle.
LEMMA HandleTyped ==
  ASSUME DomusInv, NEW h \in Handles
  PROVE  handles[h] \in HandleRecords /\ Handles = 1..Len(handles) /\ handles \in Seq(HandleRecords)
  BY DEF DomusInv, LinksExact, DomusTypeOK, Handles

\* What the steps of handles do to one of them.
LEMMA HandleSteps ==
  ASSUME DomusInv, NEW h \in Handles
  PROVE  /\ handles' = [handles EXCEPT ![h].task = "ended"] => HandlesWane
         /\ handles' = [handles EXCEPT ![h].closing = TRUE] => HandlesWane
         /\ \A g \in {"none", "told", "begun", "drained"} :
               /\ handles' = [handles EXCEPT ![h].grace = g] => HandlesWane
               /\ handles' = [handles EXCEPT ![h].closing = TRUE, ![h].grace = g] => HandlesWane
         /\ \A n \in Int : handles' = [handles EXCEPT ![h].handshakes = n] => HandlesWane
         /\ \A b \in BOOLEAN : handles' = [handles EXCEPT ![h].had_primary = b] => HandlesWane
<1>0. handles[h] \in HandleRecords /\ h \in DOMAIN handles /\ handles = [k \in DOMAIN handles |-> handles[k]]
  BY HandleTyped DEF Handles
<1>1. ASSUME handles' = [handles EXCEPT ![h].task = "ended"] PROVE HandlesWane
  <2> DEFINE r == [handles[h] EXCEPT !.task = "ended"]
  <2>1. r \in HandleRecords /\ r.peer = handles[h].peer /\ r.task # "running"
    BY <1>0 DEF HandleRecords
  <2>2. handles' = [handles EXCEPT ![h] = r]
    BY <1>1
  <2> HIDE DEF r
  <2> QED BY <2>1, <2>2, WaneByOne, ZenonT(30)
<1>2. ASSUME handles' = [handles EXCEPT ![h].closing = TRUE] PROVE HandlesWane
  <2> DEFINE r == [handles[h] EXCEPT !.closing = TRUE]
  <2>1. r \in HandleRecords /\ r.peer = handles[h].peer /\ r.closing
    BY <1>0, ZenonT(30) DEF HandleRecords
  <2>2. handles' = [handles EXCEPT ![h] = r]
    BY <1>2
  <2> HIDE DEF r
  <2> QED BY <2>1, <2>2, WaneByOne, Zenon
<1>3. ASSUME NEW g \in {"none", "told", "begun", "drained"}, handles' = [handles EXCEPT ![h].grace = g]
      PROVE  HandlesWane
  <2> DEFINE r == [handles[h] EXCEPT !.grace = g]
  <2>1. /\ r \in HandleRecords /\ r.peer = handles[h].peer
        /\ r.task = handles[h].task /\ r.closing = handles[h].closing
    BY <1>0 DEF HandleRecords
  <2>2. handles' = [handles EXCEPT ![h] = r]
    BY <1>3
  <2> HIDE DEF r
  <2> QED BY <2>1, <2>2, WaneByOne, Zenon
<1>4. ASSUME NEW g \in {"none", "told", "begun", "drained"},
             handles' = [handles EXCEPT ![h].closing = TRUE, ![h].grace = g]
      PROVE  HandlesWane
  <2> DEFINE r == [handles[h] EXCEPT !.closing = TRUE, !.grace = g]
  <2>1. r \in HandleRecords /\ r.peer = handles[h].peer /\ r.closing
    BY <1>0, Zenon DEF HandleRecords
  <2>2. handles' = [handles EXCEPT ![h] = r]
    BY <1>0, <1>4, ZenonT(30) DEF HandleRecords
  <2> HIDE DEF r
  <2> QED BY <2>1, <2>2, WaneByOne, Zenon
<1>5. ASSUME NEW n \in Int, handles' = [handles EXCEPT ![h].handshakes = n]
      PROVE  HandlesWane
  <2> DEFINE r == [handles[h] EXCEPT !.handshakes = n]
  <2>1. /\ r \in HandleRecords /\ r.peer = handles[h].peer
        /\ r.task = handles[h].task /\ r.closing = handles[h].closing
    BY <1>0 DEF HandleRecords
  <2>2. handles' = [handles EXCEPT ![h] = r]
    BY <1>5
  <2> HIDE DEF r
  <2> QED BY <2>1, <2>2, WaneByOne, Zenon
<1>6. ASSUME NEW b \in BOOLEAN, handles' = [handles EXCEPT ![h].had_primary = b]
      PROVE  HandlesWane
  <2> DEFINE r == [handles[h] EXCEPT !.had_primary = b]
  <2>1. /\ r \in HandleRecords /\ r.peer = handles[h].peer
        /\ r.task = handles[h].task /\ r.closing = handles[h].closing
    BY <1>0 DEF HandleRecords
  <2>2. handles' = [handles EXCEPT ![h] = r]
    BY <1>6
  <2> HIDE DEF r
  <2> QED BY <2>1, <2>2, WaneByOne, Zenon
<1> QED BY <1>1, <1>2, <1>3, <1>4, <1>5, <1>6

-----------------------------------------------------------------------------
(* The steps of ConnectBack.                                                *)

\* handle_callback_message and CallbackRendezvous::fulfill: the entry goes, and
\* the oneshot is resolved only by the peer that was dialled.
LEMMA CallbackKeeps ==
  ASSUME Counting, DomusInv, NEW c \in Conns, handle_callback_message(c), UNCHANGED registry
  PROVE  DomusInv'
<1> USE DEF DomusInv, LinksExact
<1> DEFINE d == called[c]
           match == d \in pending /\ link[c].peer = link[d].peer
           at == IF match THEN "closed" ELSE "sending_err"
<1>0. /\ Move(c, at) /\ At(c) = "authenticating" /\ inflight' = inflight - 1
      /\ pending' = pending \ {d}
      /\ reply' = IF d \in pending
                  THEN [reply EXCEPT ![d] = IF match THEN link[c].peer ELSE "dropped"]
                  ELSE reply
      /\ UNCHANGED <<workload, called, accepted, abandoned, handles, peers>>
  BY DEF handle_callback_message, fulfill, registry
<1>1. /\ link \in [Links -> LinkRecords] /\ pending \subseteq Dials /\ abandoned \subseteq Dials
      /\ reply \in [Dials -> Peers \cup {"open", "dropped"}]
      /\ c \in Links /\ c \notin Dials
  BY ConnectBackAssumption DEF DomusTypeOK, Links
<1>3. at \in {"closed", "sending_err"} /\ at \in Unhandled \cup Handed \cup Over
  BY DEF Unhandled, Over
<1> HIDE DEF at
<1>2. /\ link' \in [Links -> LinkRecords]
      /\ \A x \in Links : /\ At(x)' = IF x = c THEN at ELSE At(x)
                          /\ link'[x].peer = link[x].peer /\ link'[x].handle = link[x].handle
  BY <1>0, <1>1, <1>3, MoveLink, ZenonT(30)
<1>4. link[c].peer \in Peers
  BY <1>0 DEF HandlesMatch
<1>5. DomusTypeOK'
  <2>1. reply' \in [Dials -> Peers \cup {"open", "dropped"}]
    BY <1>0, <1>1, <1>4
  <2>2. DomusTypeOK
    OBVIOUS
  <2> QED BY ONLY <1>0, <1>1, <1>2, <2>1, <2>2 DEF DomusTypeOK
<1>6. ChannelExact'
  BY <1>0, <1>1, <1>2, ChannelKept, ZenonT(30) DEF Links
<1>7. HandlesMatch' /\ LiveHandles'
  <2>1. KeepsHandle(At(c), at)
    BY <1>0, <1>3, ZenonT(30) DEF KeepsHandle, Unhandled, Handed
  <2> QED BY <1>0, <1>2, <2>1, HandlesSame, HandlesKept, SMTT(30)
<1>8. \A x \in Dials : At(x)' = At(x) /\ link'[x].peer = link[x].peer
  BY <1>1, <1>2 DEF Links
<1>9. \A x \in Dials : reply'[x] = reply[x]
                         \/ /\ x = d /\ d \in pending
                            /\ reply'[x] \in Peers \cup {"dropped"}
                            /\ reply'[x] \in Peers => reply'[x] = link[x].peer
  BY <1>0, <1>1, <1>4, ConnectBackAssumption
<1>10. d \in pending => At(d) \notin Uncalled
  BY <1>1 DEF RendezvousExact, RepliesMatch, Uncalled, Over
<1>11. d \in pending => At(d) \notin Called
  BY <1>1, ZenonT(30) DEF RendezvousExact, RepliesMatch, Called, Over
<1>12. RepliesMatch'
  <2>1. \A x \in Dials : /\ At(x)' \in Uncalled => reply'[x] = "open"
                         /\ At(x)' \in Called => reply'[x] \in Peers
    BY <1>8, <1>9, <1>10, <1>11 DEF RepliesMatch
  <2>2. \A x \in Dials : reply'[x] \in Peers => reply'[x] = link'[x].peer
    BY <1>8, <1>9 DEF RepliesMatch
  <2>3. \A x \in abandoned : At(x)' \in Over
    BY <1>1, <1>8 DEF RepliesMatch
  <2> QED BY <1>0, <2>1, <2>2, <2>3 DEF RepliesMatch
<1>13. RendezvousExact'
  <2> DEFINE W == {x \in Dials : At(x) \in {"registered", "waiting"} /\ reply[x] = "open"}
  <2>1. W \subseteq pending /\ pending \subseteq W \cup abandoned
    BY DEF RendezvousExact
  <2>2. W' = W \ {d}
    <3>1. d \in pending => d \notin W'
      BY <1>0, <1>1, <1>4, ConnectBackAssumption
    <3>2. d \notin pending => d \notin W /\ reply' = reply
      BY <1>0, <2>1, ZenonT(30)
    <3> QED BY <1>8, <1>9, <3>1, <3>2
  <2>3. \A x \in Dials : At(x)' \in {"challenged", "setup", "open", "adopted"} => reply'[x] = link'[x].peer
    BY <1>8, <1>12 DEF RepliesMatch, Called
  <2> HIDE DEF W
  <2>4. W' \subseteq pending' /\ pending' \subseteq W' \cup abandoned'
    BY <1>0, <2>1, <2>2, ZenonT(30)
  <2> QED BY <2>3, <2>4 DEF RendezvousExact, W
<1>14. PermitsExact'
  <2>1. At(c)' = at /\ \A x \in Conns \ {c} : At(x)' = At(x)
    BY <1>1, <1>2 DEF Links
  <2> QED BY <1>0, <1>3, <2>1, PermitsMove
<1> QED BY <1>5, <1>6, <1>7, <1>12, <1>13, <1>14

\* An authenticated stream is sent to the listener, once.
LEMMA SendAcceptedKeeps ==
  ASSUME DomusInv, NEW c \in Conns, send_accepted(c), UNCHANGED registry
  PROVE  DomusInv'
<1> USE DEF DomusInv, LinksExact
<1> DEFINE at == IF At(c) = "sending_ok" THEN "queued" ELSE "closed"
           r == [from |-> c, ok |-> At(c) = "sending_ok"]
<1>0. /\ Move(c, at) /\ At(c) \in {"sending_ok", "sending_err"}
      /\ accepted' = Append(accepted, r)
      /\ UNCHANGED <<workload, called, inflight, pending, reply, abandoned, handles, peers>>
  BY DEF send_accepted, registry
<1>1. /\ link \in [Links -> LinkRecords] /\ accepted \in Seq(Results) /\ r \in Results
      /\ c \in Links /\ c \notin Dials
  BY ConnectBackAssumption DEF DomusTypeOK, Links, Results
<1>3. r.from = c /\ (r.ok <=> At(c) = "sending_ok")
  BY ZenonT(30)
<1>4. /\ at \in {"queued", "closed"} /\ at \in Unhandled \cup Handed \cup Over
      /\ At(c) = "sending_ok" => at = "queued"
  BY DEF Unhandled, Over
<1> HIDE DEF at, r
<1>2. /\ link' \in [Links -> LinkRecords]
      /\ \A x \in Links : /\ At(x)' = IF x = c THEN at ELSE At(x)
                          /\ link'[x].peer = link[x].peer /\ link'[x].handle = link[x].handle
  BY <1>0, <1>1, <1>4, MoveLink
<1>5. DomusTypeOK'
  <2>1. accepted' \in Seq(Results)
    BY <1>0, <1>1
  <2> QED BY <1>0, <1>2, <2>1 DEF DomusTypeOK
<1>6. ChannelExact'
  <2>1. /\ \A i \in DOMAIN accepted' : i \in DOMAIN accepted \/ i = Len(accepted) + 1
        /\ \A i \in DOMAIN accepted : accepted'[i] = accepted[i]
        /\ accepted'[Len(accepted) + 1] = r
    BY <1>0, <1>1
  <2>2. \A i \in DOMAIN accepted : accepted[i].from \in Conns
    <3>1. \A i \in DOMAIN accepted : accepted[i] \in Results
      BY <1>1
    <3> QED BY <3>1 DEF Results
  <2>3. \A i \in DOMAIN accepted : accepted[i].ok =>
          /\ At(accepted[i].from) = "queued" /\ link'[accepted[i].from].at = "queued"
          /\ accepted[i].from # c
    BY <1>0, <1>2, <2>2, ZenonT(30) DEF ChannelExact, Links, At
  <2>4. \A i \in DOMAIN accepted' : accepted'[i].ok => link'[accepted'[i].from].at = "queued"
    BY <1>1, <1>2, <1>3, <1>4, <2>1, <2>3, ZenonT(30) DEF At
  <2>5. \A i, j \in DOMAIN accepted' :
          accepted'[i].ok /\ accepted'[j].ok /\ accepted'[i].from = accepted'[j].from => i = j
    BY <1>3, <2>1, <2>3 DEF ChannelExact
  <2> QED BY <2>4, <2>5 DEF ChannelExact, At
<1>7. HandlesMatch' /\ LiveHandles'
  <2>1. KeepsHandle(At(c), at)
    BY <1>0, <1>4 DEF KeepsHandle, Unhandled, Handed
  <2> QED BY <1>0, <1>2, <2>1, HandlesSame, HandlesKept
<1>8. RepliesMatch' /\ RendezvousExact'
  BY <1>0, <1>1, <1>2, RepliesKept, ZenonT(30) DEF Links
<1>9. PermitsExact'
  BY <1>0, <1>2, <1>4, PermitsKept DEF Links
<1> QED BY <1>5, <1>6, <1>7, <1>8, <1>9

\* The listener takes the oldest result of the accepted channel.
LEMMA AcceptResultKeeps ==
  ASSUME DomusInv, accept_result, UNCHANGED registry
  PROVE  DomusInv'
<1> USE DEF DomusInv, LinksExact
<1> DEFINE c == Head(accepted).from
<1>0. /\ accepted # <<>> /\ accepted' = Tail(accepted)
      /\ IF Head(accepted).ok THEN Move(c, "accepted") ELSE UNCHANGED link
      /\ UNCHANGED <<workload, called, inflight, pending, reply, abandoned, handles, peers>>
  BY DEF accept_result, registry
<1>1. link \in [Links -> LinkRecords] /\ accepted \in Seq(Results)
  BY DEF DomusTypeOK
<1>2. \A i \in DOMAIN accepted : accepted[i].from \in Conns
  <2>1. \A i \in DOMAIN accepted : accepted[i] \in Results
    BY <1>1
  <2> QED BY <2>1 DEF Results
<1>3. /\ 1 \in DOMAIN accepted /\ Head(accepted) = accepted[1]
      /\ accepted' \in Seq(Results)
      /\ \A i \in DOMAIN accepted' : i + 1 \in DOMAIN accepted /\ i + 1 # 1
                                       /\ accepted'[i] = accepted[i + 1] /\ i \in Nat
  BY <1>0, <1>1
<1>4. c \in Conns /\ (Head(accepted).ok => At(c) = "queued")
  BY <1>2, <1>3 DEF ChannelExact
<1> HIDE DEF c
<1>5. /\ link' \in [Links -> LinkRecords]
      /\ \A x \in Links : /\ At(x)' = IF Head(accepted).ok /\ x = c THEN "accepted" ELSE At(x)
                          /\ link'[x].peer = link[x].peer /\ link'[x].handle = link[x].handle
  <2>1. c \in Links /\ "accepted" \in Unhandled
    BY <1>4 DEF Links, Unhandled
  <2>2. CASE Head(accepted).ok
    BY <1>0, <1>1, <2>1, <2>2, MoveLink
  <2>3. CASE ~Head(accepted).ok
    BY <1>0, <1>1, <2>3 DEF At
  <2> QED BY <2>2, <2>3
<1>6. DomusTypeOK'
  BY <1>0, <1>3, <1>5, ZenonT(30) DEF DomusTypeOK
<1>7. ChannelExact'
  <2>1. \A i \in DOMAIN accepted' :
          accepted'[i].ok => /\ accepted'[i].from \in Conns /\ At(accepted'[i].from) = "queued"
                             /\ ~(Head(accepted).ok /\ accepted'[i].from = c)
    BY <1>2, <1>3 DEF ChannelExact, c
  <2>2. \A i \in DOMAIN accepted' : accepted'[i].ok => link'[accepted'[i].from].at = "queued"
    BY <1>5, <2>1 DEF Links, At
  <2>3. \A i, j \in DOMAIN accepted' :
          accepted'[i].ok /\ accepted'[j].ok /\ accepted'[i].from = accepted'[j].from => i = j
    <3>1. ASSUME NEW i \in DOMAIN accepted', NEW j \in DOMAIN accepted',
                 accepted'[i].ok, accepted'[j].ok, accepted'[i].from = accepted'[j].from
          PROVE  i + 1 = j + 1
      BY <1>3, <3>1 DEF ChannelExact
    <3> QED BY <1>3, <3>1
  <2> QED BY <2>2, <2>3 DEF ChannelExact, At
<1>8. HandlesMatch' /\ LiveHandles'
  <2>1. KeepsHandle("queued", "accepted")
    BY DEF KeepsHandle, Unhandled, Handed
  <2> QED BY <1>0, <1>4, <1>5, <2>1, HandlesSame, HandlesKept
<1>9. RepliesMatch' /\ RendezvousExact'
  <2>1. \A d \in Dials : At(d)' = At(d) /\ link'[d].peer = link[d].peer
    BY <1>4, <1>5, ConnectBackAssumption DEF Links
  <2> QED BY <1>0, <2>1, RepliesKept
<1>10. PermitsExact'
  BY <1>0, <1>4, <1>5, PermitsKept, ZenonT(30) DEF Links
<1> QED BY <1>6, <1>7, <1>8, <1>9, <1>10
\* Dial d registers, times out or is cut short: what its callback's books must say.
LEMMA DialKeeps ==
  ASSUME DomusInv, NEW d \in Dials, NEW at \in Unhandled \cup Handed \cup Over,
         Move(d, at), KeepsHandle(At(d), at), At(d) \in Handed, at \in Handed \cup Over,
         pending' \in SUBSET Dials, abandoned' \in SUBSET Dials,
         \A x \in Dials \ {d} : /\ x \in pending' <=> x \in pending
                                /\ x \in abandoned' <=> x \in abandoned,
         at \in {"registered", "waiting"} /\ reply[d] = "open" => d \in pending',
         d \in pending' =>
           \/ at \in {"registered", "waiting"} /\ reply[d] = "open"
           \/ d \in abandoned',
         d \in abandoned' => at \in Over,
         at \in Uncalled => reply[d] = "open",
         at \notin Called,
         UNCHANGED <<workload, called, inflight, accepted, reply, handles, peers>>
  PROVE  DomusInv'
<1> USE DEF DomusInv, LinksExact
<1>1. /\ link \in [Links -> LinkRecords] /\ d \in Links /\ d \notin Conns
      /\ pending \subseteq Dials /\ abandoned \subseteq Dials
  BY ConnectBackAssumption DEF DomusTypeOK, Links
<1>2. /\ link' \in [Links -> LinkRecords]
      /\ \A x \in Links : /\ At(x)' = IF x = d THEN at ELSE At(x)
                          /\ link'[x].peer = link[x].peer /\ link'[x].handle = link[x].handle
  BY <1>1, MoveLink
<1>3. DomusTypeOK'
  BY <1>2 DEF DomusTypeOK
<1>4. \A x \in Conns : At(x)' = At(x)
  BY <1>1, <1>2 DEF Links
<1>5. ChannelExact'
  BY <1>4, ChannelKept, ZenonT(30)
<1>6. HandlesMatch' /\ LiveHandles'
  BY <1>2, HandlesSame, HandlesKept, SMTT(30)
<1>7. RepliesMatch'
  <2>1. \A x \in Dials : /\ At(x)' \in Uncalled => reply[x] = "open"
                         /\ At(x)' \in Called => reply[x] \in Peers
                         /\ reply[x] \in Peers => reply[x] = link'[x].peer
    BY <1>2, ZenonT(30) DEF RepliesMatch, Links
  <2>2. \A x \in abandoned' : At(x)' \in Over
    BY <1>1, <1>2, ZenonT(30) DEF RepliesMatch, Links
  <2> QED BY <2>1, <2>2, ZenonT(30) DEF RepliesMatch
<1>8. RendezvousExact'
  <2> DEFINE W == {x \in Dials : At(x) \in {"registered", "waiting"} /\ reply[x] = "open"}
  <2>1. W \subseteq pending /\ pending \subseteq W \cup abandoned
    BY ZenonT(30) DEF RendezvousExact
  <2>2. \A x \in Dials \ {d} : x \in W' <=> x \in W
    BY <1>2 DEF Links
  <2>3. d \in W' <=> at \in {"registered", "waiting"} /\ reply[d] = "open"
    BY <1>1, <1>2, ZenonT(30)
  <2>4. \A x \in Dials : At(x)' \in {"challenged", "setup", "open", "adopted"} => reply[x] = link'[x].peer
    BY <1>7 DEF RepliesMatch, Called
  <2>5. W' \subseteq Dials
    OBVIOUS
  <2> HIDE DEF W
  <2>6. W' \subseteq pending' /\ pending' \subseteq W' \cup abandoned'
    BY <2>1, <2>2, <2>3, <2>5
  <2> QED BY <2>4, <2>6, ZenonT(30) DEF RendezvousExact, W
<1>9. PermitsExact'
  BY <1>4, PermitsKept, SMTT(30)
<1> QED BY <1>3, <1>5, <1>6, <1>7, <1>8, <1>9, ZenonT(30)

\* Every step of authentication that reports nothing.
LEMMA AuthenticateKeeps ==
  ASSUME Counting, DomusInv, Authenticate
  PROVE  DomusInv'
<1>0. /\ UNCHANGED registry /\ UNCHANGED <<handles, peers>> /\ HandlesWane
      /\ Conns \subseteq Links /\ Dials \subseteq Links /\ Conns \cap Dials = {}
      /\ \A c \in Conns : c \notin Dials
  BY HandlesSame, ConnectBackAssumption, ZenonT(30)
     DEF Authenticate, registry, DomusInv, LinksExact, Links
<1>1. ASSUME NEW c \in Conns, NEW p \in workload.dialers, peer_connects(c, p)
      PROVE  DomusInv'
  <2>1. At(c) = "unused" /\ Appear(c, "backlog", p) /\ p \in Peers
    BY <1>1 DEF peer_connects, Appear, Fresh, DomusInv, LinksExact, DomusTypeOK, WorkloadRecords
  <2>2. workload \in WorkloadRecords /\ called \in [Conns -> Links]
    BY DEF DomusInv, LinksExact, DomusTypeOK
  <2>3. workload' \in WorkloadRecords
    BY <1>1, <2>2 DEF peer_connects, WorkloadRecords
  <2>4. /\ called' \in [Conns -> Links]
        /\ UNCHANGED <<inflight, accepted, pending, reply, abandoned, handles, peers>>
    BY <1>0, <1>1, <2>2, ZenonT(30) DEF peer_connects
  <2> QED BY <1>0, <2>1, <2>3, <2>4, AppearKeeps
<1>2. ASSUME NEW c \in Conns, NEW d \in Dials, NEW p \in workload.peers, peer_calls_back(c, d, p)
      PROVE  DomusInv'
  <2>1. At(c) = "unused" /\ Appear(c, "backlog", p) /\ p \in Peers
    BY <1>2 DEF peer_calls_back, Appear, Fresh, DomusInv, LinksExact, DomusTypeOK, WorkloadRecords
  <2>2. workload \in WorkloadRecords /\ called \in [Conns -> Links]
    BY DEF DomusInv, LinksExact, DomusTypeOK
  <2>3. workload' \in WorkloadRecords
    BY <1>2, <2>2 DEF peer_calls_back, WorkloadRecords
  <2>4. /\ called' \in [Conns -> Links]
        /\ UNCHANGED <<inflight, accepted, pending, reply, abandoned, handles, peers>>
    BY <1>0, <1>2, <2>2 DEF peer_calls_back
  <2> QED BY <1>0, <2>1, <2>3, <2>4, AppearKeeps
<1>3. ASSUME NEW c \in Conns, accept_raw(c)
      PROVE  DomusInv'
  <2>1. KeepsHandle(At(c), "spawned") /\ At(c) \notin {"queued", "authenticating", "refused"}
    BY <1>3 DEF accept_raw, KeepsHandle, Unhandled, Handed
  <2> QED BY <1>0, <1>3, <2>1, MoveKeeps DEF accept_raw, Unhandled
<1>4. ASSUME NEW c \in Conns, try_acquire(c)
      PROVE  DomusInv'
  <2> DEFINE at == IF inflight + 1 > HandshakeTotal THEN "refused" ELSE "authenticating"
  <2>1. /\ KeepsHandle(At(c), at) /\ at \in Unhandled /\ At(c) = "spawned"
        /\ Move(c, at) /\ inflight' = inflight + 1
    BY <1>4 DEF try_acquire, KeepsHandle, Unhandled, Handed
  <2>2. UNCHANGED <<workload, called, accepted, pending, reply, abandoned, handles, peers>>
    BY <1>0, <1>4 DEF try_acquire
  <2> QED BY <2>1, <2>2, GateKeeps
<1>5. ASSUME NEW c \in Conns, turn_away(c) \/ handle_auth_init(c) \/ authentication_fails(c)
      PROVE  DomusInv'
  <2>1. /\ \E at \in {"closed", "sending_ok", "sending_err"} :
             Move(c, at) /\ (at = "closed" \/ At(c) = "authenticating")
        /\ At(c) \in {"authenticating", "refused"} /\ inflight' = inflight - 1
    BY <1>5, ZenonT(30) DEF turn_away, handle_auth_init, authentication_fails
  <2>2. UNCHANGED <<workload, called, accepted, pending, reply, abandoned, handles, peers>>
    BY <1>0, <1>5 DEF turn_away, handle_auth_init, authentication_fails
  <2>3. PICK at \in {"closed", "sending_ok", "sending_err"} : Move(c, at)
    BY <2>1
  <2>4. KeepsHandle(At(c), at) /\ at \in Unhandled \cup Over
    BY <2>1, ZenonT(30) DEF KeepsHandle, Unhandled, Handed, Over
  <2> QED BY <2>1, <2>2, <2>3, <2>4, GateKeeps, ZenonT(30)
<1>6. ASSUME NEW d \in Dials, register_pending_callback(d)
      PROVE  DomusInv'
  <2>1. /\ At(d) = "dialing" /\ Move(d, "registered") /\ pending' = pending \cup {d}
        /\ KeepsHandle(At(d), "registered")
        /\ "registered" \in Handed /\ "registered" \notin Called \cup Uncalled \cup Over
        /\ At(d) \in Handed /\ At(d) \notin Over
    BY <1>6, ZenonT(30) DEF register_pending_callback, KeepsHandle, Unhandled, Handed, Called, Uncalled, Over
  <2>2. reply[d] = "open" /\ d \notin abandoned
    BY <2>1 DEF DomusInv, LinksExact, RepliesMatch, Uncalled
  <2>3. /\ UNCHANGED <<workload, called, inflight, accepted, reply, handles, peers>>
        /\ abandoned' = abandoned /\ abandoned \in SUBSET Dials /\ pending \in SUBSET Dials
    BY <1>0, <1>6, ZenonT(30) DEF register_pending_callback, DomusInv, LinksExact, DomusTypeOK
  <2> QED BY <2>1, <2>2, <2>3, DialKeeps
<1>7. ASSUME NEW d \in Dials, write_auth_init(d) \/ prove(d)
      PROVE  DomusInv'
  <2>1. PICK at \in {"waiting", "setup"} :
          /\ Move(d, at) /\ At(d) \in {"registered", "challenged"}
          /\ at = "waiting" <=> At(d) = "registered"
    BY <1>7 DEF write_auth_init, prove
  <2>2. At(d) = "challenged" => reply[d] \in Peers /\ reply[d] # "open"
    BY ConnectBackAssumption DEF DomusInv, LinksExact, RepliesMatch, Called
  <2>3. KeepsHandle(At(d), at) /\ KeepsReply(d, At(d), at) /\ at \in Handed
    BY <2>1, <2>2, ZenonT(30) DEF KeepsHandle, KeepsReply, Unhandled, Handed, Called, Uncalled, Over
  <2> QED BY <1>0, <1>7, <2>1, <2>3, MoveKeeps DEF write_auth_init, prove
<1>8. ASSUME NEW d \in Dials, callback_arrives(d)
      PROVE  DomusInv'
  <2>1. reply[d] # "open"
    BY <1>8, ConnectBackAssumption DEF callback_arrives
  <2>2. KeepsHandle(At(d), "challenged") /\ KeepsReply(d, At(d), "challenged")
    BY <1>8, <2>1 DEF callback_arrives, KeepsHandle, KeepsReply, Unhandled, Handed, Called, Uncalled, Over
  <2> QED BY <1>0, <1>8, <2>2, MoveKeeps DEF callback_arrives, Handed
<1> QED
  <2>1. ASSUME NEW c \in Conns, handle_callback_message(c) \/ send_accepted(c)
        PROVE  DomusInv'
    BY <1>0, <2>1, CallbackKeeps, SendAcceptedKeeps, ZenonT(30)
  <2> QED BY <1>1, <1>2, <1>3, <1>4, <1>5, <1>6, <1>7, <1>8, <2>1, ZenonT(30) DEF Authenticate

\* Every step of authentication that reports: results, and dials that fail.
LEMMA AuthenticateReportingKeeps ==
  ASSUME DomusInv, AuthenticateReporting
  PROVE  DomusInv'
<1>0. UNCHANGED registry /\ UNCHANGED <<handles, peers>>
  BY ZenonT(30) DEF AuthenticateReporting, registry
<1>1. ASSUME NEW d \in Dials, callback_timeout(d) \/ cut_short(d)
      PROVE  DomusInv'
  <2> DEFINE at == IF At(d) = "dialing" THEN "unreached" ELSE "failed"
  <2>1. /\ At(d) \in {"dialing", "registered", "waiting", "challenged"} /\ Move(d, at)
        /\ UNCHANGED <<workload, called, inflight, accepted, reply>>
        /\ \/ pending' = pending \ {d} /\ abandoned' = abandoned
           \/ pending' = pending /\ abandoned' = abandoned \cup (pending \cap {d})
    BY <1>1 DEF callback_timeout, cut_short, dial_fails
  <2>2. /\ at \in Over /\ KeepsHandle(At(d), at) /\ At(d) \in Handed
        /\ at \notin Called \cup Uncalled \cup {"registered", "waiting"} /\ At(d) \notin Over
    BY <2>1 DEF KeepsHandle, Unhandled, Handed, Over, Called, Uncalled
  <2> HIDE DEF at
  <2>3. pending \in SUBSET Dials /\ abandoned \in SUBSET Dials
    BY DEF DomusInv, LinksExact, DomusTypeOK
  <2>4. /\ pending' \in SUBSET Dials /\ abandoned' \in SUBSET Dials
        /\ d \in pending' => d \in abandoned'
        /\ \A x \in Dials \ {d} : /\ x \in pending' <=> x \in pending
                                  /\ x \in abandoned' <=> x \in abandoned
    BY <2>1, <2>3
  <2>5. UNCHANGED <<workload, called, inflight, accepted, reply, handles, peers>>
    BY <1>0, <2>1
  <2> QED BY <2>1, <2>2, <2>4, <2>5, DialKeeps, ZenonT(30)
<1>2. ASSUME NEW c \in Conns, accept_fails(c)
      PROVE  DomusInv'
  <2>1. /\ KeepsHandle(At(c), "closed") /\ At(c) \notin {"queued", "authenticating", "refused"}
        /\ "closed" \in Over
    BY <1>2 DEF accept_fails, KeepsHandle, Unhandled, Handed, Over
  <2>2. HandlesWane /\ c \in Links /\ c \notin Dials
    BY <1>0, HandlesSame, ConnectBackAssumption, ZenonT(30) DEF DomusInv, LinksExact, Links
  <2> QED BY <1>0, <1>2, <2>1, <2>2, MoveKeeps DEF accept_fails
<1> QED BY <1>0, <1>1, <1>2, AcceptResultKeeps DEF AuthenticateReporting

-----------------------------------------------------------------------------
(* The registry of handles.                                                 *)

\* A link gets the handle its address leads to, or a new one.
LEMMA HandOverKeeps ==
  ASSUME DomusInv, NEW l \in Links, NEW at,
         \/ l \in Conns /\ At(l) = "accepted" /\ at = "handed"
         \/ l \in Dials /\ At(l) = "checked" /\ at = "asked",
         link[l].peer \in Peers, peer_handle_for(link[l].peer, l, at),
         UNCHANGED Settled
  PROVE  DomusInv'
<1> DEFINE p == link[l].peer
           reuse == peers[p] # NoHandle /\ ~handles[peers[p]].closing
           h == IF reuse THEN peers[p] ELSE Len(handles) + 1
<1>p. p \in Peers /\ p = link[l].peer
  OBVIOUS
<1>i. /\ DomusTypeOK /\ ChannelExact /\ HandlesMatch /\ RepliesMatch /\ LiveHandles
      /\ RendezvousExact /\ PermitsExact
  BY DEF DomusInv, LinksExact
<1>0. /\ link' = [link EXCEPT ![l].at = at, ![l].handle = h]
      /\ handles' = IF reuse THEN handles ELSE Append(handles, NewHandle(p))
      /\ peers' = [peers EXCEPT ![p] = h]
  BY DEF peer_handle_for
<1>s. UNCHANGED <<workload, called, inflight, accepted, pending, reply, abandoned>>
  BY DEF Settled
<1>1. /\ link \in [Links -> LinkRecords] /\ handles \in Seq(HandleRecords)
      /\ peers \in [Peers -> 0..Len(handles)] /\ Len(handles) \in Nat
      /\ Handles = 1..Len(handles) /\ Conns \cap Dials = {}
  BY ONLY <1>i, ConnectBackAssumption, SMTT(30) DEF DomusTypeOK, Handles
<1>2. NewHandle(p) \in HandleRecords /\ NewHandle(p).peer = p
  <2> HIDE DEF p
  <2> QED BY ONLY <1>p DEF NewHandle, HandleRecords, shutdown_tx
<1>3. \A x \in Links : /\ At(x)' = IF x = l THEN at ELSE At(x)
                       /\ link'[x].peer = link[x].peer
                       /\ link'[x].handle = IF x = l THEN h ELSE link[x].handle
  BY <1>0, <1>1 DEF At, LinkRecords
<1>4. at \in Handed /\ at \notin Unhandled /\ At(l) \in Unhandled
  BY DEF Handed, Unhandled
<1>5. /\ handles' \in Seq(HandleRecords) /\ h \in Handles' /\ h \in Nat \ {0}
      /\ Len(handles) <= Len(handles')
      /\ Handles' = 1..Len(handles') /\ handles'[h].peer = p
      /\ \A k \in Handles : k \in Handles' /\ handles'[k] = handles[k]
      /\ \A k \in Handles' : k = h \/ k \in Handles
  <2>1. CASE reuse
    <3>1. h = peers[p] /\ h \in Handles /\ handles[h].peer = p /\ handles' = handles
      BY ONLY <1>i, <1>p, <1>0, <1>1, <2>1 DEF LiveHandles, NoHandle
    <3> HIDE DEF h, p, reuse
    <3>2. Handles' = Handles
      BY <3>1, ZenonT(30) DEF Handles
    <3> QED BY ONLY <1>1, <3>1, <3>2
  <2>2. CASE ~reuse
    <3>1. h = Len(handles) + 1 /\ handles' = Append(handles, NewHandle(p))
      BY <1>0, <2>2, ZenonT(30)
    <3> HIDE DEF h, p, reuse
    <3>2. /\ handles' \in Seq(HandleRecords) /\ Len(handles') = Len(handles) + 1
          /\ handles'[Len(handles) + 1] = NewHandle(p)
          /\ \A k \in 1..Len(handles) : handles'[k] = handles[k]
      BY ONLY <1>1, <1>2, <3>1
    <3>3. Handles' = 1..Len(handles')
      BY <3>2 DEF Handles
    <3>4. \A k \in Handles : k \in Handles' /\ handles'[k] = handles[k]
      BY ONLY <1>1, <3>2, <3>3
    <3>5. \A k \in Handles' : k = h \/ k \in Handles
      BY ONLY <1>1, <3>1, <3>2, <3>3
    <3>6. h \in Handles' /\ h \in Nat \ {0} /\ handles'[h].peer = p /\ Len(handles) <= Len(handles')
      BY ONLY <1>1, <1>2, <3>1, <3>2, <3>3
    <3> QED BY <3>2, <3>3, <3>4, <3>5, <3>6, ZenonT(30)
  <2> QED BY <2>1, <2>2, ZenonT(30)
<1>6. \A k \in Handles :
        handles[k].task = "running" /\ ~handles[k].closing /\ handles[k].peer = p => k = h
  BY ONLY <1>i, <1>1, <1>p DEF LiveHandles, NoHandle
<1>7. \A q \in Peers : peers'[q] = IF q = p THEN h ELSE peers[q]
  BY ONLY <1>0, <1>1, ZenonT(30)
<1> HIDE DEF h, p, reuse
<1>8. DomusTypeOK'
  <2>1. [link[l] EXCEPT !.at = at, !.handle = h] \in LinkRecords
    BY <1>1, <1>4, <1>5, Zenon DEF LinkRecords
  <2>2. link' = [link EXCEPT ![l] = [link[l] EXCEPT !.at = at, !.handle = h]]
    BY <1>0, <1>1, ZenonT(30) DEF LinkRecords
  <2>3. link' \in [Links -> LinkRecords]
    BY <1>1, <2>1, <2>2
  <2>4. peers' \in [Peers -> 0..Len(handles')]
    <3>1. h \in 0..Len(handles') /\ \A q \in Peers : peers[q] \in 0..Len(handles')
      BY ONLY <1>1, <1>5
    <3>2. peers' = [peers EXCEPT ![p] = h] /\ peers = [q \in Peers |-> peers[q]]
      BY ONLY <1>0, <1>1
    <3> QED BY <3>1, <3>2, ZenonT(30)
  <2> QED BY ONLY <1>i, <1>s, <1>5, <2>3, <2>4 DEF DomusTypeOK
<1>9. ChannelExact'
  BY <1>i, <1>s, <1>3, ChannelKept, ZenonT(30) DEF Links
<1>10. HandlesMatch'
  <2>1. \A x \in Links : /\ At(x)' \in Unhandled => link'[x].handle = NoHandle
                         /\ At(x)' \in Handed => link'[x].handle # NoHandle
    BY <1>i, <1>3, <1>4, <1>5, ZenonT(30) DEF HandlesMatch, NoHandle
  <2>2. \A x \in Links : link'[x].handle # NoHandle =>
          link'[x].handle \in Handles' /\ handles'[link'[x].handle].peer = link'[x].peer
    BY ONLY <1>i, <1>p, <1>3, <1>5 DEF HandlesMatch
  <2>3. /\ \A c \in Conns : At(c)' # "unused" => link'[c].peer \in Peers
        /\ \A d \in Dials : At(d)' # "unused" => link'[d].peer \in Peers \cup {Foreign}
    BY <1>i, <1>p, <1>3, ZenonT(30) DEF HandlesMatch, Links
  <2> QED BY <2>1, <2>2, <2>3, ZenonT(30) DEF HandlesMatch, NoHandle
<1>11. LiveHandles'
  <2>1. \A q \in Peers : peers'[q] # NoHandle => handles'[peers'[q]].peer = q
    BY ONLY <1>i, <1>1, <1>5, <1>7, SMTT(30) DEF LiveHandles, NoHandle
  <2>2. \A k \in Handles' : handles'[k].peer \in Peers
    <3>1. \A k \in Handles' : handles'[k] \in HandleRecords
      BY <1>5
    <3> QED BY <3>1, ZenonT(30) DEF HandleRecords
  <2>3. \A k \in Handles' : handles'[k].task = "running" /\ ~handles'[k].closing
                              => peers'[handles'[k].peer] = k
    BY ONLY <1>i, <1>5, <1>6, <1>7, <2>2 DEF LiveHandles
  <2> QED BY <2>1, <2>3, ZenonT(30) DEF LiveHandles
<1>12. RepliesMatch' /\ RendezvousExact'
  <2>1. l \in Dials => reply[l] = "open" /\ At(l) = "checked" /\ at = "asked"
    BY <1>i, <1>1 DEF RepliesMatch, Uncalled
  <2>2. l \in Dials => KeepsReply(l, At(l), at)
    BY <2>1, ZenonT(30) DEF KeepsReply, Uncalled, Called, Over
  <2> QED BY <1>i, <1>s, <1>3, <2>2, RepliesKept, ZenonT(30) DEF Links
<1>13. PermitsExact'
  BY <1>i, <1>s, <1>3, PermitsKept, ZenonT(30) DEF Links
<1> QED BY <1>8, <1>9, <1>10, <1>11, <1>12, <1>13, ZenonT(30)
        DEF DomusInv, LinksExact
\* All tasks of a handle are aborted.
LEMMA DropHandleKeeps ==
  ASSUME DomusInv, NEW h \in Handles, drop_handle(h)
  PROVE  DomusInv'
<1> USE DEF DomusInv, LinksExact
<1> DEFINE tasks == {l \in Links : link[l].handle = h
                       /\ At(l) \notin {"served", "failed", "unreached", "closed"}}
<1>0. /\ handles' = [handles EXCEPT ![h].task = "ended"]
      /\ link' = [l \in Links |-> IF l \in tasks THEN Aborted(l) ELSE link[l]]
      /\ abandoned' = abandoned \cup (pending \cap tasks)
      /\ UNCHANGED <<workload, called, inflight, accepted, pending, reply, peers>>
  BY DEF drop_handle
<1>1. /\ link \in [Links -> LinkRecords] /\ handles \in Seq(HandleRecords)
      /\ pending \in SUBSET Dials /\ abandoned \in SUBSET Dials
      /\ Handles = 1..Len(handles) /\ h # NoHandle
  BY DEF DomusTypeOK, Handles, NoHandle
<1>2. \A l \in tasks : l \in Links /\ At(l) \in Handed
  <2>1. \A l \in tasks : /\ l \in Links /\ link[l] \in LinkRecords
                         /\ At(l) \notin Unhandled /\ At(l) \notin {"served", "failed", "unreached", "closed"}
    BY <1>1, ZenonT(30) DEF HandlesMatch
  <2> QED BY <2>1, ZenonT(30) DEF LinkRecords, Over, At
<1>a. \A l \in Links : /\ Aborted(l) \in LinkRecords /\ Aborted(l).at \in {"failed", "closed"}
                       /\ Aborted(l).peer = link[l].peer /\ Aborted(l).handle = link[l].handle
  <2>1. \A l \in Links : link[l] \in LinkRecords
    BY <1>1
  <2> QED BY <2>1 DEF Aborted, LinkRecords, Over
<1>3. \A x \in Links : /\ x \in tasks => At(x)' \in {"failed", "closed"}
                       /\ x \notin tasks => At(x)' = At(x)
                       /\ link'[x].peer = link[x].peer /\ link'[x].handle = link[x].handle
  BY <1>0, <1>a DEF At
<1>w. HandlesWane
  BY <1>0, HandleSteps, ZenonT(30)
<1>4. DomusTypeOK'
  <2>1. \A l \in Links : link[l] \in LinkRecords /\ Aborted(l) \in LinkRecords
    BY <1>1, <1>a
  <2>2. link' \in [Links -> LinkRecords]
    BY <1>0, <2>1
  <2> HIDE DEF tasks
  <2>3. abandoned' \in SUBSET Dials
    BY <1>0, <1>1
  <2> QED BY <1>0, <1>w, <2>2, <2>3 DEF DomusTypeOK, HandlesWane
<1> HIDE DEF tasks
<1>5. ChannelExact'
  BY <1>0, <1>2, <1>3, ChannelKept, ZenonT(30) DEF Links, Handed
<1>6. HandlesMatch' /\ LiveHandles'
  <2>1. \A x \in tasks : KeepsHandle(At(x), At(x)')
    BY <1>2, <1>3 DEF KeepsHandle, Handed, Unhandled
  <2> QED BY <1>0, <1>w, <1>3, <2>1, HandlesKept
<1>7. RepliesMatch'
  <2>1. \A d \in Dials : /\ At(d)' \in Uncalled => reply[d] = "open"
                         /\ At(d)' \in Called => reply[d] \in Peers
                         /\ reply[d] \in Peers => reply[d] = link'[d].peer
    BY <1>3 DEF RepliesMatch, Links, Uncalled, Called
  <2>2. \A d \in abandoned' : At(d)' \in Over
    BY <1>0, <1>1, <1>3, ZenonT(30) DEF RepliesMatch, Links, Over
  <2> QED BY <1>0, <2>1, <2>2, ZenonT(30) DEF RepliesMatch
<1>8. RendezvousExact'
  <2> DEFINE W == {x \in Dials : At(x) \in {"registered", "waiting"} /\ reply[x] = "open"}
  <2>1. W \subseteq pending /\ pending \subseteq W \cup abandoned
    BY DEF RendezvousExact
  <2>2. W' = W \ tasks
    BY <1>0, <1>3, ZenonT(30) DEF Links
  <2>3. \A x \in Dials : At(x)' \in {"challenged", "setup", "open", "adopted"} => reply[x] = link'[x].peer
    BY <1>0, <1>7 DEF RepliesMatch, Called
  <2> HIDE DEF W
  <2>4. W' \subseteq pending' /\ pending' \subseteq W' \cup abandoned'
    BY <1>0, <2>1, <2>2
  <2> QED BY <1>0, <2>3, <2>4, ZenonT(30) DEF RendezvousExact, W
<1>9. PermitsExact'
  <2>1. \A x \in tasks : At(x) \notin {"authenticating", "refused"}
    BY <1>2 DEF Handed
  <2> QED BY <1>0, <1>3, <2>1, PermitsKept, ZenonT(30) DEF Links
<1> QED BY <1>4, <1>5, <1>6, <1>7, <1>8, <1>9
\* A link with a handle has one that exists, and its handshakes are a number.
LEMMA HandleOfLink ==
  ASSUME DomusInv, NEW l \in Links, At(l) \in Handed
  PROVE  /\ link[l].handle \in Handles
         /\ handles[link[l].handle].handshakes \in Int
         /\ handles[link[l].handle].had_primary \in BOOLEAN
<1>1. link[l].handle \in Handles
  BY ZenonT(30) DEF DomusInv, LinksExact, HandlesMatch
<1>2. handles[link[l].handle] \in HandleRecords
  BY <1>1, HandleTyped
<1> QED BY <1>1, <1>2, ZenonT(30) DEF HandleRecords

\* A handed over link goes on to another state of a handed over link, or ends.
LEMMA GoesOn ==
  ASSUME DomusInv, NEW l \in Links, NEW at \in Handed \cup Over, At(l) \in Handed,
         l \in Dials => \/ at \in Over /\ At(l) \notin {"registered", "waiting"}
                        \/ At(l) = "asked" /\ at \in {"served", "dialing"}
                        \/ At(l) \in Called /\ at \in Called
  PROVE  /\ KeepsHandle(At(l), at) /\ At(l) # "queued"
         /\ l \in Dials => KeepsReply(l, At(l), at)
         /\ {At(l), at} \cap {"authenticating", "refused"} = {}
<1>1. KeepsHandle(At(l), at) /\ At(l) # "queued" /\ {At(l), at} \cap {"authenticating", "refused"} = {}
  BY DEF KeepsHandle, Handed, Unhandled, Over
<1>2. l \in Dials /\ At(l) \in Called => reply[l] \in Peers
  BY DEF DomusInv, LinksExact, RepliesMatch
<1>3. l \in Dials => KeepsReply(l, At(l), at)
  BY <1>2 DEF KeepsReply, Called, Uncalled, Over, Handed
<1> QED BY <1>1, <1>3

\* Connected and drain_blobs move several links of a handle.
LEMMA ManyGoOn ==
  ASSUME DomusInv, HandlesWane, link' \in [Links -> LinkRecords],
         \A x \in Links :
           /\ link'[x].peer = link[x].peer /\ link'[x].handle = link[x].handle
           /\ \/ At(x)' = At(x)
              \/ /\ At(x) \in {"open", "early", "adopted", "zombie"}
                 /\ At(x)' \in {"adopted", "zombie", "rejected", "closed"},
         UNCHANGED Settled, peers' = peers
  PROVE  DomusInv'
<1>s. UNCHANGED <<workload, called, inflight, accepted, pending, reply, abandoned>>
  BY ZenonT(30) DEF Settled
<1>1. \A x \in Links : At(x)' = At(x) \/
        /\ KeepsHandle(At(x), At(x)') /\ At(x) # "queued"
        /\ x \in Dials => KeepsReply(x, At(x), At(x)')
        /\ {At(x), At(x)'} \cap {"authenticating", "refused"} = {}
  <2>1. ASSUME NEW x \in Links, NEW at \in {"adopted", "zombie", "rejected", "closed"},
               At(x) \in {"open", "early", "adopted", "zombie"}
        PROVE  /\ KeepsHandle(At(x), at) /\ At(x) # "queued"
               /\ x \in Dials => KeepsReply(x, At(x), at)
               /\ {At(x), at} \cap {"authenticating", "refused"} = {}
    <3>1. /\ at \in Handed \cup Over /\ At(x) \in Handed
          /\ \/ at \in Over /\ At(x) \notin {"registered", "waiting"}
             \/ At(x) \in Called /\ at \in Called
      BY <2>1, ZenonT(30) DEF Handed, Over, Called
    <3> QED BY <3>1, GoesOn, ZenonT(30)
  <2> QED BY <2>1, ZenonT(30)
<1>2. DomusTypeOK'
  BY <1>s, ZenonT(30) DEF DomusInv, LinksExact, DomusTypeOK, HandlesWane
<1>3. LinksExact'
  BY <1>s, <1>1, <1>2, LinksMove, ZenonT(30) DEF DomusInv
<1>4. PermitsExact'
  BY <1>s, <1>1, PermitsKept DEF DomusInv, Links
<1> QED BY <1>3, <1>4, ZenonT(30) DEF DomusInv

\* The state task takes a callis, and lets go of those it held if the peer is fresh.
LEMMA ConnectedKeeps ==
  ASSUME DomusInv, NEW l \in Links, NEW fresh \in BOOLEAN, connected(l, fresh)
  PROVE  DomusInv'
<1> DEFINE h == link[l].handle
           primary == link[l].kind = "Primary"
           gone == IF fresh /\ primary THEN Held(h) ELSE {}
<1>0. /\ At(l) \in {"open", "early"} /\ UNCHANGED Settled /\ peers' = peers
      /\ \/ /\ Move(l, IF At(l) = "open" THEN "rejected" ELSE "closed") /\ handles' = handles
         \/ /\ link' = [x \in Links |->
                          IF x = l
                          THEN [link[l] EXCEPT !.at = IF @ = "open" THEN "adopted" ELSE "zombie"]
                          ELSE IF x \in gone THEN LetGo(x) ELSE link[x]]
            /\ handles' = [handles EXCEPT ![h].had_primary = @ \/ primary]
  BY DEF connected
<1>1. link \in [Links -> LinkRecords] /\ At(l) \in Handed
  BY <1>0 DEF DomusInv, LinksExact, DomusTypeOK, Handed
<1>2. \A x \in gone : x \in Links /\ At(x) \in {"adopted", "zombie"}
  BY DEF Held
<1> HIDE DEF gone
<1>3. CASE Move(l, IF At(l) = "open" THEN "rejected" ELSE "closed") /\ handles' = handles
  <2>1. HandlesWane
    BY <1>3, HandlesSame DEF DomusInv, LinksExact
  <2>2. PICK at \in {"rejected", "closed"} : Move(l, at)
    BY <1>3
  <2>3. at \in Unhandled \cup Handed \cup Over
    BY DEF Handed, Over
  <2>4. /\ link' \in [Links -> LinkRecords]
        /\ \A x \in Links : /\ link'[x].peer = link[x].peer /\ link'[x].handle = link[x].handle
                            /\ At(x)' = IF x = l THEN at ELSE At(x)
    BY <1>1, <2>2, <2>3, MoveLink
  <2> QED BY <1>0, <2>1, <2>4, ManyGoOn
<1>4. CASE /\ link' = [x \in Links |->
                          IF x = l
                          THEN [link[l] EXCEPT !.at = IF @ = "open" THEN "adopted" ELSE "zombie"]
                          ELSE IF x \in gone THEN LetGo(x) ELSE link[x]]
           /\ handles' = [handles EXCEPT ![h].had_primary = @ \/ primary]
  <2>1. HandlesWane
    BY <1>1, <1>4, HandleOfLink, HandleSteps, ZenonT(30)
  <2>2. \A x \in gone : /\ LetGo(x) \in LinkRecords
                        /\ LetGo(x).peer = link[x].peer /\ LetGo(x).handle = link[x].handle
                        /\ LetGo(x).at \in {"rejected", "closed"}
    BY <1>1, <1>2 DEF LetGo, LinkRecords, Handed, Over
  <2>3. link' \in [Links -> LinkRecords]
    <3>1. [link[l] EXCEPT !.at = IF @ = "open" THEN "adopted" ELSE "zombie"] \in LinkRecords
      BY <1>1 DEF LinkRecords, Handed
    <3> QED BY <1>1, <1>4, <2>2, <3>1
  <2>4. \A x \in Links : /\ link'[x].peer = link[x].peer /\ link'[x].handle = link[x].handle
                         /\ \/ x = l /\ At(x)' \in {"adopted", "zombie"}
                            \/ x \in gone /\ At(x)' \in {"rejected", "closed"}
                            \/ At(x)' = At(x)
    BY <1>1, <1>4, <2>2 DEF LinkRecords, At
  <2> QED BY <1>0, <1>2, <2>1, <2>3, <2>4, ManyGoOn
<1> QED BY <1>0, <1>3, <1>4
\* A step of one handed over link, with or without its handle.
LEMMA LinkStepKeeps ==
  ASSUME DomusInv, NEW l \in Links, NEW at \in Handed \cup Over, Move(l, at), At(l) \in Handed,
         l \in Dials => \/ at \in Over /\ At(l) \notin {"registered", "waiting"}
                        \/ At(l) = "asked" /\ at \in {"served", "dialing"}
                        \/ At(l) \in Called /\ at \in Called,
         \/ handles' = handles
         \/ \E n \in Int : handles' = [handles EXCEPT ![link[l].handle].handshakes = n],
         UNCHANGED Settled, peers' = peers
  PROVE  DomusInv'
<1>1. HandlesWane
  BY HandlesSame, HandleOfLink, HandleSteps, ZenonT(30) DEF DomusInv, LinksExact
<1>2. UNCHANGED <<workload, called, inflight, accepted, pending, reply, abandoned, peers>>
  BY SMTT(30) DEF Settled
<1> QED BY <1>1, <1>2, GoesOn, MoveKeeps

\* Every step between an authenticated stream, or a send, and a callis of a handle.
LEMMA ConnectKeeps ==
  ASSUME DomusInv, Connect
  PROVE  DomusInv'
<1>0. /\ Conns \subseteq Links /\ Dials \subseteq Links
      /\ \A c \in Conns : c \notin Dials
  BY ConnectBackAssumption DEF Links
<1>1. ASSUME NEW c \in Conns, peer_handle_inbound(c)
      PROVE  DomusInv'
  <2>1. link[c].peer \in Peers
    BY <1>1 DEF peer_handle_inbound, DomusInv, LinksExact, HandlesMatch
  <2>2. At(c) = "accepted" /\ peer_handle_for(link[c].peer, c, "handed") /\ UNCHANGED Settled
    BY <1>1 DEF peer_handle_inbound
  <2>3. c \in Links
    BY <1>0
  <2> QED BY <2>1, <2>2, <2>3, HandOverKeeps, ZenonT(30)
<1>2. ASSUME NEW c \in Conns, inbound(c)
      PROVE  DomusInv'
  <2> DEFINE h == link[c].handle
             at == IF handles[h].handshakes + 1 > HandshakePerPeer THEN "excess" ELSE "hello"
  <2>1. /\ At(c) \in Handed /\ at \in Handed /\ Move(c, at)
        /\ handles' = [handles EXCEPT ![h].handshakes = handles[h].handshakes + 1]
        /\ UNCHANGED Settled /\ peers' = peers
    BY <1>2 DEF inbound, Handed
  <2>2. handles[h].handshakes + 1 \in Int
    BY <1>0, <2>1, HandleOfLink
  <2> HIDE DEF at
  <2> QED BY <1>0, <2>1, <2>2, LinkStepKeeps, ZenonT(30)
<1>3. ASSUME NEW c \in Conns, At(c) \in {"excess", "hello", "setup"}, LeaveGate(c, "closed"),
             UNCHANGED Settled, peers' = peers
      PROVE  DomusInv'
  <2> DEFINE h == link[c].handle
  <2>1. /\ At(c) \in Handed /\ "closed" \in Over /\ Move(c, "closed")
        /\ handles' = [handles EXCEPT ![h].handshakes = handles[h].handshakes - 1]
    BY <1>3 DEF LeaveGate, Handed, Over
  <2>2. handles[h].handshakes - 1 \in Int
    BY <1>0, <2>1, HandleOfLink
  <2> QED BY <1>0, <1>3, <2>1, <2>2, LinkStepKeeps, ZenonT(30)
<1>4. ASSUME NEW c \in Conns, turn_away_excess(c) \/ hello_cut(c)
      PROVE  DomusInv'
  BY <1>3, <1>4 DEF turn_away_excess, hello_cut
<1>5. ASSUME NEW c \in Conns, read_hello(c)
      PROVE  DomusInv'
  <2>1. At(c) \in Handed /\ "setup" \in Handed
    BY <1>5, ZenonT(30) DEF read_hello, Handed
  <2> QED BY <1>0, <1>5, <2>1, LinkStepKeeps DEF read_hello, registry
<1>6. ASSUME NEW d \in Dials, NEW p \in workload.peers \cup {Foreign}, send_remote(d, p)
      PROVE  DomusInv'
  <2> DEFINE at == IF shutdown_tx THEN "failed" ELSE "checked"
  <2>1. At(d) = "unused" /\ Appear(d, at, p) /\ at \in {"checked", "failed"}
    BY <1>6 DEF send_remote, Fresh, Appear
  <2> HIDE DEF at
  <2>2. workload \in WorkloadRecords /\ called \in [Conns -> Links]
    BY DEF DomusInv, LinksExact, DomusTypeOK
  <2>3. workload' \in WorkloadRecords /\ p \in Peers \cup {Foreign}
    BY <1>6, <2>2 DEF send_remote, WorkloadRecords
  <2>4. /\ called' \in [Conns -> Links]
        /\ UNCHANGED <<inflight, accepted, pending, reply, abandoned, handles, peers>>
    BY <1>6, <2>2 DEF send_remote, registry
  <2> QED BY <1>0, <2>1, <2>3, <2>4, AppearKeeps
<1>7. ASSUME NEW d \in Dials, peer_handle(d)
      PROVE  DomusInv'
  <2>1. link[d].peer \in Peers \cup {Foreign} /\ reply[d] = "open" /\ At(d) = "checked"
    BY <1>7, ZenonT(30) DEF peer_handle, DomusInv, LinksExact, HandlesMatch, RepliesMatch, Uncalled
  <2>2. CASE link[d].peer = Foreign
    <3>1. /\ KeepsHandle(At(d), "failed") /\ KeepsReply(d, At(d), "failed") /\ "failed" \in Over
          /\ HandlesWane
      BY <1>7, <2>1, <2>2, HandlesSame, ZenonT(30) DEF peer_handle, KeepsHandle, KeepsReply, Unhandled, Handed,
         Over, Called, Uncalled, DomusInv, LinksExact
    <3>2. Move(d, "failed") /\ UNCHANGED Settled /\ peers' = peers
      BY <1>7, <2>2 DEF peer_handle
    <3>3. UNCHANGED <<workload, called, inflight, accepted, pending, reply, abandoned, peers>>
      BY <3>2, ZenonT(30) DEF Settled
    <3> QED BY <1>0, <2>1, <3>1, <3>2, <3>3, MoveKeeps, ZenonT(30)
  <2>3. CASE link[d].peer # Foreign
    BY <1>0, <1>7, <2>1, <2>3, HandOverKeeps, ZenonT(30) DEF peer_handle
  <2> QED BY <2>2, <2>3, ZenonT(30)
<1>8. ASSUME NEW d \in Dials, launch_primary_dial(d)
      PROVE  DomusInv'
  <2>1. PICK at \in {"served", "dialing"} : Move(d, at)
    BY <1>8, ZenonT(30) DEF launch_primary_dial
  <2>2. /\ At(d) = "asked" /\ At(d) \in Handed /\ at \in Handed
        /\ UNCHANGED Settled /\ peers' = peers /\ handles' = handles
    BY <1>8, ZenonT(30) DEF launch_primary_dial, Handed, registry
  <2> QED BY <1>0, <2>1, <2>2, LinkStepKeeps, SMTT(30)
<1>9. ASSUME NEW l \in Links, NEW reported \in BOOLEAN, handshake_fails(l, reported)
      PROVE  DomusInv'
  <2>1. /\ At(l) \in {"hello", "setup"} /\ UNCHANGED Settled /\ peers' = peers
        /\ At(l) \in Handed /\ "failed" \in Over
    BY <1>9 DEF handshake_fails, Handed, Over
  <2>2. CASE l \in Conns
    BY <1>3, <1>9, <2>1, <2>2 DEF handshake_fails
  <2>3. CASE l \notin Conns
    <3>1. Move(l, "failed") /\ handles' = handles
      BY <1>9, <2>3 DEF handshake_fails
    <3> QED BY <2>1, <3>1, LinkStepKeeps
  <2> QED BY <2>2, <2>3
<1>10. ASSUME NEW l \in Links, NEW kind \in Kinds, establish(l, kind)
       PROVE  DomusInv'
  <2>1. /\ At(l) = "setup" /\ link' = [link EXCEPT ![l].at = "open", ![l].kind = kind]
        /\ \/ handles' = handles
           \/ handles' = [handles EXCEPT ![link[l].handle].handshakes = handles[link[l].handle].handshakes - 1]
        /\ UNCHANGED Settled /\ peers' = peers
    BY <1>10 DEF establish
  <2>2. At(l) \in Handed /\ "open" \in Handed /\ At(l) \in Called /\ "open" \in Called
    BY <2>1 DEF Handed, Called
  <2>3. HandlesWane
    <3>1. /\ link[l].handle \in Handles
          /\ handles[link[l].handle].handshakes - 1 \in Int
      BY <2>2, HandleOfLink
    <3> QED BY <2>1, <3>1, HandlesSame, HandleSteps, ZenonT(30) DEF DomusInv, LinksExact
  <2>4. link \in [Links -> LinkRecords]
    BY DEF DomusInv, LinksExact, DomusTypeOK
  <2>5. link' \in [Links -> LinkRecords]
    <3>1. [link[l] EXCEPT !.at = "open", !.kind = kind] \in LinkRecords
      BY <2>2, <2>4, Zenon DEF LinkRecords
    <3>2. link' = [link EXCEPT ![l] = [link[l] EXCEPT !.at = "open", !.kind = kind]]
      BY <2>1, <2>4, ZenonT(30) DEF LinkRecords
    <3> QED BY <2>4, <3>1, <3>2
  <2>6. \A x \in Links : /\ link'[x].peer = link[x].peer /\ link'[x].handle = link[x].handle
                         /\ At(x)' = IF x = l THEN "open" ELSE At(x)
    BY <2>1, <2>4 DEF LinkRecords, At
  <2>7. UNCHANGED <<workload, called, inflight, accepted, pending, reply, abandoned, peers>>
    BY <2>1, ZenonT(30) DEF Settled
  <2>8. DomusTypeOK'
    BY <2>3, <2>5, <2>7, ZenonT(30) DEF DomusInv, LinksExact, DomusTypeOK, HandlesWane
  <2>9. /\ KeepsHandle(At(l), "open") /\ At(l) # "queued"
        /\ l \in Dials => KeepsReply(l, At(l), "open")
    BY <2>2, GoesOn, ZenonT(30)
  <2>10. LinksExact'
    BY <2>3, <2>6, <2>7, <2>8, <2>9, LinksMove, ZenonT(30) DEF DomusInv
  <2>11. PermitsExact'
    BY <2>1, <2>6, <2>7, PermitsKept DEF DomusInv, Links
  <2> QED BY <2>10, <2>11 DEF DomusInv
<1>11. ASSUME NEW l \in Links, closes_early(l) \/ connection_closed(l)
       PROVE  DomusInv'
  <2>1. PICK at \in {"early", "closed"} : Move(l, at)
    BY <1>11, ZenonT(30) DEF closes_early, connection_closed
  <2>2. /\ At(l) \in {"open", "adopted", "rejected"}
        /\ UNCHANGED Settled /\ peers' = peers /\ handles' = handles
    BY <1>11, ZenonT(30) DEF closes_early, connection_closed, registry
  <2>3. At(l) \in Handed /\ At(l) \in Called /\ at \in Called \cup Over /\ at \in Handed \cup Over
    BY <2>2 DEF Handed, Called, Over
  <2> QED BY <2>1, <2>2, <2>3, LinkStepKeeps, SMTT(30)
<1>12. ASSUME NEW h \in Handles, teardown_peer_handle(h)
       PROVE  DomusInv'
  BY <1>12, HandleSteps, WaneKeeps, ZenonT(30) DEF teardown_peer_handle, connecting
<1>13. ASSUME NEW d \in Dials, identity_mismatch(d)
       PROVE  DomusInv'
  <2>1. /\ At(d) = "setup" /\ Move(d, "failed") /\ UNCHANGED Settled
        /\ peers' = peers /\ handles' = handles
    BY <1>13, ZenonT(30) DEF identity_mismatch, registry
  <2>2. At(d) \in Handed /\ "failed" \in Over
    BY <2>1 DEF Handed, Over
  <2> QED BY <1>0, <2>1, <2>2, LinkStepKeeps
<1> QED BY <1>1, <1>2, <1>4, <1>5, <1>6, <1>7, <1>8, <1>9, <1>10, <1>11, <1>12, <1>13,
           ConnectedKeeps, DropHandleKeeps, ZenonT(30) DEF Connect

\* Every step of Transport::shutdown and of the tasks it ends.
LEMMA ShutdownKeeps ==
  ASSUME DomusInv, Shutdown
  PROVE  DomusInv'
<1>1. ASSUME NEW h \in Handles, graceful_close(h) \/ execute_graceful_close(h) \/ state_task_ends(h)
      PROVE  DomusInv'
  <2>1. handles[h].grace \in {"none", "told", "begun", "drained"}
    BY HandleTyped DEF HandleRecords
  <2>2. HandlesWane
    <3>1. CASE graceful_close(h)
      <4>1. PICK g \in {"none", "told", "begun", "drained"} :
              handles' = [handles EXCEPT ![h].closing = TRUE, ![h].grace = g]
        BY <2>1, <3>1, Zenon DEF graceful_close
      <4> QED BY <4>1, HandleSteps, ZenonT(30)
    <3>2. CASE execute_graceful_close(h) \/ state_task_ends(h)
      BY <3>2, HandleSteps, ZenonT(30) DEF execute_graceful_close, state_task_ends
    <3> QED BY <1>1, <3>1, <3>2
  <2> QED BY <1>1, <2>2, WaneKeeps
          DEF graceful_close, execute_graceful_close, state_task_ends, connecting
<1>2. ASSUME NEW h \in Handles, drain_blobs(h)
      PROVE  DomusInv'
  <2> DEFINE gone == {l \in Held(h) : link[l].kind = "Blob"}
  <2>1. /\ link' = [l \in Links |-> IF l \in gone THEN LetGo(l) ELSE link[l]]
        /\ handles' = [handles EXCEPT ![h].grace = "drained"]
        /\ UNCHANGED Settled /\ peers' = peers
    BY <1>2 DEF drain_blobs
  <2>2. link \in [Links -> LinkRecords] /\ HandlesWane
    BY <2>1, HandleSteps, ZenonT(30) DEF DomusInv, LinksExact, DomusTypeOK
  <2>3. \A x \in gone : x \in Links /\ At(x) \in {"adopted", "zombie"}
    BY DEF Held
  <2> HIDE DEF gone
  <2>4. \A x \in gone : /\ LetGo(x) \in LinkRecords
                        /\ LetGo(x).peer = link[x].peer /\ LetGo(x).handle = link[x].handle
                        /\ LetGo(x).at \in {"rejected", "closed"}
    BY <2>2, <2>3 DEF LetGo, LinkRecords, Handed, Over
  <2>5. link' \in [Links -> LinkRecords]
    BY <2>1, <2>2, <2>4
  <2>6. \A x \in Links : /\ link'[x].peer = link[x].peer /\ link'[x].handle = link[x].handle
                         /\ \/ x \in gone /\ At(x)' \in {"rejected", "closed"}
                            \/ At(x)' = At(x)
    BY <2>1, <2>4 DEF At
  <2> QED BY <2>1, <2>2, <2>3, <2>5, <2>6, ManyGoOn
<1>3. ASSUME stop_peers
      PROVE  DomusInv'
  <2>1. /\ handles \in Seq(HandleRecords) /\ Handles = 1..Len(handles)
        /\ \A h \in Handles : handles[h] \in HandleRecords
    BY DEF DomusInv, LinksExact, DomusTypeOK, Handles
  <2>2. handles' = [h \in Handles |-> [handles[h] EXCEPT !.told = @ \/ h \in shutdown.held]]
    BY <1>3 DEF stop_peers
  <2>3. \A h \in Handles : /\ handles'[h] \in HandleRecords
                           /\ handles'[h].peer = handles[h].peer
                           /\ handles'[h].task = handles[h].task
                           /\ handles'[h].closing = handles[h].closing
    <3>1. \A h \in Handles : (handles[h].told \/ h \in shutdown.held) \in BOOLEAN
      OBVIOUS
    <3>2. \A h \in Handles, b \in BOOLEAN : LET r == [handles[h] EXCEPT !.told = b] IN
            /\ r \in HandleRecords /\ r.peer = handles[h].peer
            /\ r.task = handles[h].task /\ r.closing = handles[h].closing
      BY <2>1 DEF HandleRecords
    <3> QED BY <2>2, <3>1, <3>2, Zenon
  <2>4. handles' \in Seq(HandleRecords) /\ Len(handles') = Len(handles)
    <3>1. Len(handles) \in Nat /\ handles' = [h \in 1..Len(handles) |-> handles'[h]]
      BY <2>1, <2>2
    <3> QED BY <2>1, <2>3, <3>1
  <2>5. HandlesWane
    BY <2>3, <2>4, ZenonT(30) DEF HandlesWane
  <2> QED BY <1>3, <2>5, WaneKeeps DEF stop_peers
<1>4. ASSUME listener_stops
      PROVE  DomusInv'
  BY <1>4, HandlesSame, WaneKeeps, ZenonT(30) DEF listener_stops, registry, DomusInv, LinksExact
<1>5. ASSUME stop_listener \/ snapshot_peers \/ wait_for_callis_zero
      PROVE  DomusInv'
  BY <1>5, StutterKeeps DEF stop_listener, snapshot_peers, wait_for_callis_zero
<1> QED BY <1>1, <1>2, <1>3, <1>4, <1>5 DEF Shutdown, CloseHandle, EndTask

-----------------------------------------------------------------------------
(* DomusInv is inductive.                                                   *)

\* No step of a domus breaks them.
LEMMA NextKeeps ==
  ASSUME Counting, DomusInv, [Next]_vars
  PROVE  DomusInv'
<1>1. CASE Actor
  BY <1>1, StutterKeeps DEF Actor, registry
<1>2. CASE Query
  <2>1. workload \in WorkloadRecords
    BY DEF DomusInv, LinksExact, DomusTypeOK
  <2>2. workload' \in WorkloadRecords
    BY <1>2, <2>1 DEF Query, WorkloadRecords
  <2>3. UNCHANGED <<link, called, inflight, accepted, pending, reply, abandoned, handles, peers>>
    BY <1>2 DEF Query, registry
  <2>4. DomusTypeOK'
    BY <2>2, <2>3, SMTT(30) DEF DomusInv, LinksExact, DomusTypeOK
  <2>5. LinksExact'
    BY <2>3, <2>4, HandlesSame, LinksMove, ZenonT(30) DEF DomusInv, LinksExact, At
  <2>6. PermitsExact'
    BY <2>3, ZenonT(30) DEF DomusInv, PermitsExact, At
  <2> QED BY <2>5, <2>6 DEF DomusInv
<1>3. CASE UNCHANGED vars
  BY <1>3, StutterKeeps, ZenonT(30) DEF vars, registry
<1> QED BY <1>1, <1>2, <1>3, AuthenticateKeeps, AuthenticateReportingKeeps, ConnectKeeps,
           ShutdownKeeps, ZenonT(30) DEF Next

\* A domus starts with empty books.
LEMMA InitEstablishes ==
  ASSUME Counting, Init
  PROVE  DomusInv
<1> USE DEF Init, ConnectBackInit, RegistryInit
<1>0. accepted = <<>> /\ handles = <<>> /\ peers = [p \in Peers |-> NoHandle]
  BY ZenonT(30)
<1>e. Len(handles) = 0 /\ DOMAIN accepted = {} /\ Handles = {}
  BY ONLY <1>0 DEF Handles
<1>1. DomusTypeOK
  <2>1. workload \in WorkloadRecords
    BY ConnectBackAssumption, ZenonT(30) DEF WorkloadRecords
  <2>2. link \in [Links -> LinkRecords]
    BY ZenonT(30) DEF LinkRecords, Unhandled, NoHandle, Kinds
  <2>3. accepted \in Seq(Results) /\ handles \in Seq(HandleRecords)
    BY ONLY <1>0
  <2>4. called \in [Conns -> Links]
    BY ZenonT(30) DEF Links
  <2>5. peers \in [Peers -> 0..Len(handles)]
    BY ONLY <1>0, <1>e DEF NoHandle
  <2>6. reply \in [Dials -> Peers \cup {"open", "dropped"}]
    BY ZenonT(30)
  <2>7. inflight = 0 /\ pending = {} /\ abandoned = {}
    BY ZenonT(30)
  <2> QED BY ONLY <2>1, <2>2, <2>3, <2>4, <2>5, <2>6, <2>7 DEF DomusTypeOK
<1>2. ChannelExact
  BY <1>e, ZenonT(30) DEF ChannelExact
<1>3. \A l \in Links : At(l) = "unused" /\ link[l].handle = NoHandle
  BY ZenonT(30) DEF At
<1>4. HandlesMatch
  BY <1>3, ZenonT(30) DEF HandlesMatch, Handed, Links
<1>5. RepliesMatch
  BY <1>3, ConnectBackAssumption, ZenonT(30) DEF RepliesMatch, Called, Links
<1>6. LiveHandles
  BY <1>0, <1>e, ZenonT(30) DEF LiveHandles
<1>7. RendezvousExact
  BY <1>3, ZenonT(30) DEF RendezvousExact, Links
<1>8. PermitsExact
  <2>1. Authenticating = {} /\ Refused = {}
    BY <1>3, ZenonT(30) DEF Authenticating, Refused, Links
  <2>2. Cardinality({}) = 0
    BY Zenon DEF Counting
  <2> QED BY <2>1, <2>2, PermitsCount, ConnectBackAssumption
<1> QED BY <1>1, <1>2, <1>4, <1>5, <1>6, <1>7, <1>8, ZenonT(30) DEF DomusInv, LinksExact

-----------------------------------------------------------------------------
(* The theorems.                                                            *)

INSTANCE FiniteSetTheorems

\* Finite sets count that way.
LEMMA CountingHolds == Counting
<1>1. ASSUME NEW S, IsFiniteSet(S) PROVE Cardinality(S) \in Nat
  BY <1>1, FS_CardinalityType, ZenonT(30)
<1>2. ASSUME NEW S, IsFiniteSet(S), NEW T, T \subseteq S PROVE IsFiniteSet(T)
  BY <1>2, FS_Subset
<1>3. ASSUME NEW S, NEW x, IsFiniteSet(S), x \in S
      PROVE  Cardinality(S \ {x}) = Cardinality(S) - 1
  BY <1>3, FS_RemoveElement, Zenon
<1>4. ASSUME NEW S, NEW x, IsFiniteSet(S), x \notin S
      PROVE  Cardinality(S \cup {x}) = Cardinality(S) + 1
  BY <1>4, FS_AddElement, Zenon
<1>5. Cardinality({}) = 0
  BY FS_EmptySet
<1> QED BY <1>1, <1>2, <1>3, <1>4, <1>5, Zenon DEF Counting

\* The books of authentication and of the registry agree with the links and the
\* handles in every reachable state of a domus.
THEOREM DomusInvHolds == Spec => []DomusInv
<1>1. Init => DomusInv
  BY InitEstablishes, CountingHolds
<1>2. DomusInv /\ [Next]_vars => DomusInv'
  BY NextKeeps, CountingHolds
<1> QED BY <1>1, <1>2, PTL DEF Spec

\* The pre-authentication gate leaks no permit and lets no more than
\* inbound_handshake_limit_total tasks authenticate (limits.rs), for every limit.
THEOREM PermitsTheorem == Spec => []PermitsExact
<1>1. DomusInv => PermitsExact
  BY DEF DomusInv
<1> QED BY <1>1, DomusInvHolds, PTL

\* A pending callback is waited for or was abandoned, and a dial goes on only if
\* the peer it dialled called back (callback_rendezvous.rs), for every number of
\* dials and of peers calling back late, wrongly or not at all.
THEOREM RendezvousTheorem == Spec => []RendezvousExact
<1>1. DomusInv => RendezvousExact
  BY ZenonT(30) DEF DomusInv, LinksExact
<1> QED BY <1>1, DomusInvHolds, PTL

\* The map of the transport leads to the one live handle of each peer
\* (transport/mod.rs), however often handles are torn down and replaced.
THEOREM LiveHandleTheorem == Spec => []OneLiveHandle
<1>1. DomusInv => OneLiveHandle
  <2>1. ASSUME DomusInv, NEW l \in Links, At(l) = "adopted"
        PROVE  handles[link[l].handle].peer = link[l].peer
    BY <2>1 DEF DomusInv, LinksExact, HandlesMatch, Handed
  <2> QED BY <2>1, ZenonT(30) DEF DomusInv, LinksExact, LiveHandles, OneLiveHandle
<1> QED BY <1>1, DomusInvHolds, PTL
=============================================================================
