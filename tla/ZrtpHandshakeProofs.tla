------------------------ MODULE ZrtpHandshakeProofs ------------------------
(***************************************************************************)
(* Proofs about ZrtpHandshake: type correctness, KeysAgree, InitiatorIsLast *)
(* and NeverCrashes, for any number of negotiations in any mix of modes,    *)
(* any number of losses and any limits on the sending.                      *)
(*                                                                          *)
(* A message does not say which negotiation it belongs to.  The argument is *)
(* that of two negotiations in a row one is not disturbed: while endpoint e *)
(* is in negotiation n, and its peer still in the one before, the peer only *)
(* has its Confirm2 left to send, unless n - 1 was disturbed itself.  So all *)
(* that e uses in n but a Confirm2 is at least as new as n (Fresh); what the *)
(* peer has sent tells where it is (Truthful); and an endpoint that is done *)
(* with n knows what its peer can still do in n (Agreed).                   *)
(***************************************************************************)
EXTENDS ZrtpHandshake, TLAPS

RMsg == [hello : 0 .. Len(Modes), commit : 0 .. Len(Modes),
         dh : 0 .. Len(Modes)]

Phases == {"idle", "hello", "agree", "commit", "dh1", "dh2",
           "conf1", "conf2", "failed", "crashed"}

Roles == {"none", "INITIATOR", "RESPONDER"}

Message == [from : Endpoint, neg : Negotiation, type : MessageType, key : Keys]

\* What is stored for e as a message of type t.
StoredRight(e, t) ==
  Stored(e, t) => got[e][t] \in Message /\ got[e][t].type = t
                                        /\ got[e][t].from = Peer(e)

\* The negotiations that e has completed.
ResultsMatch(e) ==
  IF phase[e] = "idle" THEN Len(results[e]) = neg[e]
  ELSE neg[e] > 0 /\ Len(results[e]) = neg[e] - 1

TypeInv ==
  /\ net \subseteq Message
  /\ scenario \in Scenarios
  /\ larger \in [Negotiation -> Endpoint]
  /\ phase \in [Endpoint -> Phases]
  /\ neg \in [Endpoint -> 0 .. Len(Modes)]
  /\ tries \in [Endpoint -> Nat]
  /\ got \in [Endpoint -> [MessageType -> Message \cup {NoMsg}]]
  /\ role \in [Endpoint -> Roles]
  /\ r_msg \in [Endpoint -> RMsg]
  /\ s0 \in [Endpoint -> Keys]
  /\ confirmKeys \in [Endpoint -> Keys]
  /\ results \in [Endpoint -> Seq(Keys)]
  /\ ackLost \in BOOLEAN
  /\ mixed \in [Endpoint -> SUBSET Negotiation]
  /\ \A e \in Endpoint : \A t \in MessageType : StoredRight(e, t)
  /\ \A e \in Endpoint : ResultsMatch(e)

-----------------------------------------------------------------------------
(* The inductive invariant *)

\* What e has taken from its peer's messages, and derived from them.
Greeted(e) == Stored(e, "Hello") /\ r_msg[e].hello = got[e]["Hello"].neg
HasCommit(e) == Stored(e, "Commit") /\ r_msg[e].commit = got[e]["Commit"].neg
HasPart(e, t) == Mode(e) = "dh" => Stored(e, t) /\ r_msg[e].dh = got[e][t].neg
HasKeys(e, r) == s0[e] = generate_shared_secrets(e, r, r_msg[e])

\* e is the initiator and has derived its keys.
Derived(e) == HasKeys(e, "INITIATOR") /\ HasPart(e, "DHPart1") /\ Greeted(e)

\* Where e is tells what it has.
Local(e) ==
  /\ phase[e] \in {"agree", "commit", "dh1", "dh2", "conf1", "conf2"} =>
       Greeted(e)
  /\ phase[e] = "commit" => role[e] = "INITIATOR"
  /\ phase[e] \in {"dh1", "conf1"} => HasCommit(e)
  /\ phase[e] = "dh1" => role[e] = "RESPONDER"
  /\ phase[e] \in {"dh1", "dh2"} => Mode(e) = "dh"
  /\ phase[e] = "conf1" => HasKeys(e, "RESPONDER") /\ HasPart(e, "DHPart2")
  /\ phase[e] \in {"dh2", "conf2"} => Derived(e)

Around(m) == m \in net \/ got[Peer(m.from)][m.type] = m

\* A message of the negotiation that its sender is in tells where that is.
Current(m) ==
  LET e == m.from
  IN /\ m.type = "Commit" =>
          /\ phase[e] \notin {"hello", "agree"}
          /\ phase[e] \in {"dh1", "conf1"} => ~are_we_initiator(e)
     /\ m.type \in {"DHPart2", "Confirm2"} => Derived(e)
     /\ m.type = "DHPart2" =>
          phase[e] \notin {"hello", "agree", "commit", "dh1", "conf1"}
     /\ m.type = "Confirm1" =>
          /\ phase[e] \notin {"hello", "agree", "commit", "dh1"}
          /\ HasPart(e, "DHPart2")
     /\ m.type = "Confirm2" => phase[e] \in {"conf2", "idle", "failed"}

Truth(m) ==
  /\ m.neg <= neg[m.from]
  /\ m.type = "Conf2ACK" => Completed(m.from, m.neg)
  /\ m.type = "DHPart1" => Modes[m.neg] = "dh"
  /\ m.neg = neg[m.from] => Current(m)

Truthful == \A m \in Message : Around(m) => Truth(m)

\* What e may have stored of an earlier negotiation, and what may arrive.
FreshStore(e, t) ==
  Stored(e, t) /\ got[e][t].neg < neg[e] =>
    neg[e] \in mixed[e] /\ (t = "Confirm2" \/ MixedAgain(neg[e]))

FreshMessage(m) ==
  m.neg < neg[Peer(m.from)] =>
    m.type = "Confirm2" \/ Mixed(neg[Peer(m.from)] - 1)

Fresh == /\ \A e \in Endpoint : \A t \in MessageType : FreshStore(e, t)
         /\ \A m \in net : FreshMessage(m)

\* e is done with n.  f is not, and can only end it with the same keys.
Behind(e, f, n) ==
  /\ neg[f] = n
  /\ phase[f] \in {"conf2", "failed"} \/ (phase[f] = "dh2" /\ n \in mixed[e])
  /\ s0[f] = results[e][n]

\* e is done with n by an old Confirm2, while f still commits.  f will have the
\* same keys.  Until it is done, e cannot get further than the next Hello.
TooSoon(e, f, n) ==
  /\ neg[f] = n
  /\ n \in mixed[e]
  /\ Modes[n] = "msm"
  /\ phase[f] = "failed" \/ (phase[f] = "commit" /\ r_msg[f].hello = n)
  /\ results[e][n] = [initiator |-> f, hello |-> n, commit |-> n,
                      dh1 |-> 0, dh2 |-> 0]
  /\ \/ neg[e] = n
     \/ /\ neg[e] = n + 1
        /\ phase[e] \in {"hello", "failed"}
        /\ \A m \in Message : Around(m) /\ m.from = f => m.type # "HelloACK"
  /\ \A m \in Message : Around(m) /\ m.from = e /\ n <= m.neg =>
       \/ m.type \in {"Hello", "HelloACK", "Confirm1", "Conf2ACK"}
       \/ m.type = "Commit" /\ m.neg = n /\ larger[n] = f

Agreed(e, f, n) ==
  Completed(e, n) /\ ~MixedAgain(n) =>
    \/ Completed(f, n) /\ results[f][n] = results[e][n]
    \/ /\ results[e][n].initiator = f
       /\ Behind(e, f, n) \/ TooSoon(e, f, n)

AllAgreed == \A e \in Endpoint : \A n \in Negotiation : Agreed(e, Peer(e), n)

Inv ==
  /\ TypeInv
  /\ \A e \in Endpoint : Local(e)
  /\ Truthful
  /\ Fresh
  /\ AllAgreed
  /\ NeverCrashes

-----------------------------------------------------------------------------
(* Small facts *)

LEMMA Endpoints ==
  /\ \A e \in Endpoint : Peer(e) \in Endpoint /\ Peer(e) # e
                                              /\ Peer(Peer(e)) = e
  /\ \A e, g \in Endpoint : g # e => g = Peer(e)
BY DEF Endpoint, Peer

LEMMA ModesAreKnown ==
  ASSUME TypeInv
  PROVE  /\ Modes \in Seq({"dh", "msm"})
         /\ Len(Modes) \in Nat
         /\ \A n \in Negotiation : Modes[n] \in {"dh", "msm"}
<1>1. Modes \in Seq({"dh", "msm"})
  BY ScenariosAssumption DEF TypeInv, Modes
<1>2. Len(Modes) \in Nat
  BY <1>1
<1>3. \A n \in Negotiation : Modes[n] \in {"dh", "msm"}
  BY <1>1 DEF Negotiation
<1> QED
  BY <1>1, <1>2, <1>3

LEMMA NegIsNat ==
  ASSUME TypeInv, NEW e \in Endpoint
  PROVE  /\ neg[e] \in 0 .. Len(Modes)
         /\ neg[e] \in Nat
         /\ Len(results[e]) \in Nat
         /\ phase[e] # "idle" => neg[e] \in Negotiation
<1>1. neg[e] \in 0 .. Len(Modes) /\ results[e] \in Seq(Keys) /\ ResultsMatch(e)
  BY DEF TypeInv
<1>2. Len(Modes) \in Nat
  BY ModesAreKnown
<1> QED
  BY <1>1, <1>2 DEF ResultsMatch, Negotiation

\* The negotiations that e has completed are those before the one it is in.
LEMMA CompletedOnes ==
  ASSUME TypeInv, NEW e \in Endpoint, NEW n \in Nat \ {0}
  PROVE  /\ Completed(e, n) <=> n <= Len(results[e])
         /\ Completed(e, n) <=> n < neg[e] \/ (n = neg[e] /\ phase[e] = "idle")
<1>1. results[e] \in Seq(Keys) /\ ResultsMatch(e) /\ neg[e] \in Nat
  BY NegIsNat DEF TypeInv
<1> QED
  BY <1>1 DEF ResultsMatch, Completed

LEMMA MessageFields ==
  ASSUME NEW m \in Message, TypeInv
  PROVE  /\ m.from \in Endpoint
         /\ m.neg \in Negotiation /\ m.neg \in Nat \ {0}
         /\ m.type \in MessageType
         /\ m # NoMsg
<1>1. Len(Modes) \in Nat
  BY ModesAreKnown
<1> QED
  BY <1>1 DEF Message, Negotiation, NoMsg, Endpoint

LEMMA MsgIsMessage ==
  ASSUME TypeInv, NEW e \in Endpoint, NEW t \in MessageType,
         phase[e] # "idle"
  PROVE  /\ Msg(e, t) \in Message
         /\ Msg(e, t).from = e /\ Msg(e, t).neg = neg[e] /\ Msg(e, t).type = t
<1>1. neg[e] \in Negotiation
  BY NegIsNat
<1>2. confirmKeys[e] \in Keys
  BY DEF TypeInv
<1>3. NoKeys \in Keys
  <2>1. Len(Modes) \in Nat
    BY ModesAreKnown
  <2> QED
    BY <2>1 DEF NoKeys, Keys
<1> QED
  BY <1>1, <1>2, <1>3 DEF Msg, Message

LEMMA SecretsAreKeys ==
  ASSUME TypeInv, NEW e \in Endpoint, NEW r, NEW remote \in RMsg
  PROVE  generate_shared_secrets(e, r, remote) \in Keys
<1>1. neg[e] \in 0 .. Len(Modes) /\ Peer(e) \in Endpoint
  BY NegIsNat, Endpoints
<1>2. 0 \in 0 .. Len(Modes)
  BY ModesAreKnown
<1>3. /\ remote.hello \in 0 .. Len(Modes)
      /\ remote.commit \in 0 .. Len(Modes)
      /\ remote.dh \in 0 .. Len(Modes)
  BY DEF RMsg
<1> QED
  BY <1>1, <1>2, <1>3 DEF generate_shared_secrets, Keys

\* A stored message is around.
LEMMA StoredIsAround ==
  ASSUME TypeInv, NEW e \in Endpoint, NEW t \in MessageType, Stored(e, t)
  PROVE  /\ got[e][t] \in Message
         /\ got[e][t].from = Peer(e) /\ got[e][t].type = t
         /\ got[e][t].neg \in Negotiation
         /\ Around(got[e][t])
<1>1. StoredRight(e, t)
  BY DEF TypeInv
<1>2. Peer(Peer(e)) = e
  BY Endpoints
<1> QED
  BY <1>1, <1>2, MessageFields DEF StoredRight, Around

-----------------------------------------------------------------------------
(* A move of e: a step of a loop that does not end its negotiation.  S are    *)
(* the types of the messages that it sends.                                   *)

MoveTypes(e) ==
  /\ phase' = [phase EXCEPT ![e] = phase'[e]]
  /\ phase'[e] \in Phases \ {"idle"}
  /\ tries' \in [Endpoint -> Nat]
  /\ role' = [role EXCEPT ![e] = role'[e]]
  /\ role'[e] \in Roles
  /\ r_msg' = [r_msg EXCEPT ![e] = r_msg'[e]]
  /\ r_msg'[e] \in RMsg
  /\ s0' = [s0 EXCEPT ![e] = s0'[e]]
  /\ s0'[e] \in Keys
  /\ confirmKeys' = [confirmKeys EXCEPT ![e] = confirmKeys'[e]]
  /\ confirmKeys'[e] \in Keys

Moves(e, S) ==
  /\ phase[e] \notin {"idle", "failed", "crashed"}
  /\ S \subseteq MessageType
  /\ Send(e, S)
  /\ UNCHANGED <<losses, ackLost, mixed, scenario, larger, neg, got, results>>
  /\ MoveTypes(e)

\* The scenario does not change.
Fixed == scenario' = scenario /\ larger' = larger

LEMMA FixedOnes ==
  ASSUME Fixed
  PROVE  /\ Modes' = Modes /\ Negotiation' = Negotiation
         /\ Keys' = Keys /\ RMsg' = RMsg /\ Message' = Message
BY DEF Fixed, Modes, Negotiation, Keys, RMsg, Message

LEMMA MoveFixes ==
  ASSUME NEW e, NEW S, Moves(e, S)
  PROVE  Fixed
BY DEF Moves, Fixed

LEMMA MoveKeepsTypes ==
  ASSUME TypeInv, NEW e \in Endpoint, NEW S, Moves(e, S)
  PROVE  TypeInv'
<1> USE DEF Moves
<1>1. /\ Modes' = Modes /\ Negotiation' = Negotiation
      /\ Keys' = Keys /\ RMsg' = RMsg /\ Message' = Message
  BY MoveFixes, FixedOnes
<1>2. net' \subseteq Message
  <2>1. \A t \in S : Msg(e, t) \in Message
    BY MsgIsMessage
  <2> QED
    BY <2>1 DEF Send, TypeInv
<1>3. /\ phase' \in [Endpoint -> Phases]
      /\ role' \in [Endpoint -> Roles]
  BY DEF TypeInv, MoveTypes
<1>4. /\ r_msg' \in [Endpoint -> RMsg]
      /\ s0' \in [Endpoint -> Keys]
      /\ confirmKeys' \in [Endpoint -> Keys]
  BY DEF TypeInv, MoveTypes
<1>5. \A g \in Endpoint : ResultsMatch(g)'
  <2> SUFFICES ASSUME NEW g \in Endpoint PROVE ResultsMatch(g)'
    OBVIOUS
  <2>1. ResultsMatch(g)
    BY DEF TypeInv
  <2>2. (phase'[g] = "idle") <=> (phase[g] = "idle")
    BY DEF MoveTypes, TypeInv
  <2> QED
    BY <2>1, <2>2 DEF ResultsMatch
<1>6. \A g \in Endpoint : \A t \in MessageType : StoredRight(g, t)'
  BY <1>1 DEF TypeInv, StoredRight, Stored
<1>7. /\ scenario' \in Scenarios
      /\ larger' \in [Negotiation -> Endpoint]
      /\ neg' \in [Endpoint -> 0 .. Len(Modes)]
      /\ got' \in [Endpoint -> [MessageType -> Message \cup {NoMsg}]]
      /\ results' \in [Endpoint -> Seq(Keys)]
      /\ ackLost' \in BOOLEAN
      /\ mixed' \in [Endpoint -> SUBSET Negotiation]
  BY DEF TypeInv
<1>8. tries' \in [Endpoint -> Nat]
  BY DEF MoveTypes
<1> QED
  BY <1>1, <1>2, <1>3, <1>4, <1>5, <1>6, <1>7, <1>8 DEF TypeInv

\* What a move of e leaves alone.
LEMMA MoveFrame ==
  ASSUME TypeInv, NEW e \in Endpoint, NEW S, Moves(e, S)
  PROVE  /\ \A g \in Endpoint : g # e =>
              /\ phase'[g] = phase[g] /\ role'[g] = role[g]
              /\ r_msg'[g] = r_msg[g] /\ s0'[g] = s0[g]
         /\ \A n : Mixed(n)' = Mixed(n) /\ MixedAgain(n)' = MixedAgain(n)
         /\ \A g, n : Completed(g, n)' = Completed(g, n)
         /\ \A g, t : Stored(g, t)' = Stored(g, t)
         /\ neg' = neg /\ got' = got /\ results' = results /\ mixed' = mixed
BY DEF Moves, MoveTypes, TypeInv, Mixed, MixedAgain, Completed, Stored

\* The messages around after a move are those before it and the ones sent.
LEMMA MoveSends ==
  ASSUME TypeInv, NEW e \in Endpoint, NEW S, Moves(e, S),
         NEW m, Around(m)'
  PROVE  \/ Around(m)
         \/ /\ m.type \in S /\ m = Msg(e, m.type)
            /\ m.from = e /\ m.neg = neg[e] /\ m.type \in MessageType
<1>1. CASE m \in net'
  <2>1. CASE m \in net
    BY <2>1 DEF Around
  <2>2. CASE m \notin net
    <3>1. PICK t \in S : m = Msg(e, t)
      BY <1>1, <2>2 DEF Moves, Send
    <3>2. m.from = e /\ m.neg = neg[e] /\ m.type = t /\ t \in MessageType
      BY <3>1, MsgIsMessage DEF Moves
    <3> QED
      BY <3>1, <3>2
  <2> QED
    BY <2>1, <2>2
<1>2. CASE got'[Peer(m.from)][m.type] = m
  BY <1>2 DEF Around, Moves
<1> QED
  BY <1>1, <1>2 DEF Around

\* Local says something about one endpoint.
LEMMA LocalStays ==
  ASSUME TypeInv, NEW g \in Endpoint, Local(g), Fixed,
         phase'[g] = phase[g], role'[g] = role[g], r_msg'[g] = r_msg[g],
         s0'[g] = s0[g], neg'[g] = neg[g],
         \A t \in MessageType : Stored(g, t) =>
                                  Stored(g, t)' /\ got'[g][t] = got[g][t]
  PROVE  Local(g)'
<1> USE DEF Fixed
<1>1. Modes' = Modes /\ Mode(g)' = Mode(g)
  BY FixedOnes DEF Mode
<1>2. {"Hello", "Commit", "DHPart1", "DHPart2"} \subseteq MessageType
  BY DEF MessageType
<1>3. Greeted(g) => Greeted(g)'
  BY <1>2 DEF Greeted
<1>4. HasCommit(g) => HasCommit(g)'
  BY <1>2 DEF HasCommit
<1>5. \A t \in {"DHPart1", "DHPart2"} : HasPart(g, t) => HasPart(g, t)'
  BY <1>1, <1>2 DEF HasPart
<1>6. \A r : HasKeys(g, r) => HasKeys(g, r)'
  BY <1>1 DEF HasKeys, generate_shared_secrets
<1>7. (Mode(g) = "dh")' = (Mode(g) = "dh")
  BY <1>1
<1> QED
  BY <1>3, <1>4, <1>5, <1>6, <1>7 DEF Local, Derived

\* Truth(m) says something about the sender of m.
LEMMA TruthStays ==
  ASSUME TypeInv, NEW m \in Message, Truth(m), Fixed,
         neg'[m.from] = neg[m.from], results'[m.from] = results[m.from],
         phase'[m.from] = phase[m.from], r_msg'[m.from] = r_msg[m.from],
         s0'[m.from] = s0[m.from],
         \A t \in MessageType :
           Stored(m.from, t) => /\ Stored(m.from, t)'
                                /\ got'[m.from][t] = got[m.from][t]
  PROVE  Truth(m)'
<1> DEFINE g == m.from
<1>1. Modes' = Modes /\ Mode(g)' = Mode(g) /\ larger' = larger
  BY FixedOnes DEF Mode, Fixed
<1>2. {"Hello", "Commit", "DHPart1", "DHPart2"} \subseteq MessageType
  BY DEF MessageType
<1>3. Greeted(g) => Greeted(g)'
  BY <1>2 DEF Greeted
<1>5. \A t \in {"DHPart1", "DHPart2"} : HasPart(g, t) => HasPart(g, t)'
  BY <1>1, <1>2 DEF HasPart
<1>6. \A r : HasKeys(g, r) => HasKeys(g, r)'
  BY <1>1 DEF HasKeys, generate_shared_secrets
<1>7. are_we_initiator(g)' = are_we_initiator(g)
  BY <1>1 DEF are_we_initiator
<1>8. Completed(g, m.neg) => Completed(g, m.neg)'
  BY DEF Completed
<1>9. Current(m) => Current(m)'
  BY <1>3, <1>5, <1>6, <1>7 DEF Current, Derived
<1> QED
  BY <1>1, <1>8, <1>9 DEF Truth

-----------------------------------------------------------------------------
(* What holds between the two endpoints *)

\* While one endpoint is ahead the other has only its Confirm2 to send, unless
\* the negotiation that it is in was disturbed.
LEMMA OnlyConfirm2IsLate ==
  ASSUME Inv, NEW f \in Endpoint, neg[f] < neg[Peer(f)],
         ~Mixed(neg[Peer(f)] - 1), phase[f] # "idle"
  PROVE  phase[f] \in {"conf2", "failed"}
<1> DEFINE e == Peer(f)
           n == neg[e] - 1
<1>0. TypeInv /\ e \in Endpoint /\ f = Peer(e)
  BY Endpoints DEF Inv
<1>1. neg[e] \in Nat /\ neg[f] \in Nat /\ neg[e] \in 0 .. Len(Modes)
      /\ neg[f] > 0 /\ Len(Modes) \in Nat
  BY <1>0, NegIsNat, ModesAreKnown DEF TypeInv, ResultsMatch
<1>2. n \in Nat \ {0} /\ n \in Negotiation
  BY <1>1 DEF Negotiation
<1>3. Completed(e, n)
  BY <1>0, <1>1, <1>2, CompletedOnes
<1>4. ~MixedAgain(n) /\ n \notin mixed[e]
  <2>1. ~Mixed(n)
    OBVIOUS
  <2> QED
    BY <2>1, <1>0 DEF MixedAgain, Mixed, Endpoint
<1>5. Agreed(e, f, n)
  BY <1>0, <1>2 DEF Inv, AllAgreed
<1>6. ~Completed(f, n)
  BY <1>0, <1>1, <1>2, CompletedOnes
<1>7. Behind(e, f, n) \/ TooSoon(e, f, n)
  BY <1>3, <1>4, <1>5, <1>6 DEF Agreed
<1> QED
  BY <1>4, <1>7 DEF Behind, TooSoon

\* In a negotiation that is not disturbed a stored message is of it at least,
\* unless it is a Confirm2; and of this very one if the peer is there too.
LEMMA StoredIsFresh ==
  ASSUME Inv, NEW e \in Endpoint, NEW t \in MessageType, Stored(e, t),
         ~MixedAgain(neg[e]), t # "Confirm2" \/ neg[e] \notin mixed[e]
  PROVE  /\ neg[e] <= got[e][t].neg
         /\ got[e][t].neg <= neg[Peer(e)]
         /\ neg[e] = neg[Peer(e)] => got[e][t].neg = neg[e]
<1>1. TypeInv /\ Truthful /\ FreshStore(e, t) /\ Peer(e) \in Endpoint
  BY Endpoints DEF Inv, Fresh
<1>2. /\ got[e][t] \in Message /\ got[e][t].from = Peer(e)
      /\ Around(got[e][t])
  BY <1>1, StoredIsAround
<1>3. got[e][t].neg <= neg[Peer(e)]
  BY <1>1, <1>2 DEF Truthful, Truth
<1>4. got[e][t].neg \in Nat /\ neg[e] \in Nat /\ neg[Peer(e)] \in Nat
  BY <1>1, <1>2, MessageFields, NegIsNat
<1>5. ~(got[e][t].neg < neg[e])
  BY <1>1 DEF FreshStore
<1> QED
  BY <1>3, <1>4, <1>5

\* The invariant after a move: what has to be shown of each one.
LEMMA MoveKeeps ==
  ASSUME Inv, NEW e \in Endpoint, NEW S, Moves(e, S),
         phase[e] = "conf2" => S \subseteq {"Confirm2"},
         Local(e)',
         \A m \in Message :
           /\ m.from = e /\ m.neg = neg[e]
           /\ (Around(m) /\ Truth(m)) \/ (m.type \in S /\ m = Msg(e, m.type))
           => Truth(m)',
         \A n \in Negotiation :
           Agreed(e, Peer(e), n)' /\ Agreed(Peer(e), e, n)',
         phase'[e] = "crashed" => MixedAgain(neg[e])
  PROVE  Inv'
<1> DEFINE f == Peer(e)
<1>0. /\ TypeInv /\ TypeInv' /\ Fixed
      /\ f \in Endpoint /\ f # e /\ Peer(f) = e
      /\ \A g \in Endpoint : g # e => g = f
  BY MoveKeepsTypes, MoveFixes, Endpoints DEF Inv
<1>1. /\ \A g \in Endpoint : g # e =>
              /\ phase'[g] = phase[g] /\ role'[g] = role[g]
              /\ r_msg'[g] = r_msg[g] /\ s0'[g] = s0[g]
      /\ \A n : Mixed(n)' = Mixed(n) /\ MixedAgain(n)' = MixedAgain(n)
      /\ \A g, n : Completed(g, n)' = Completed(g, n)
      /\ \A g, t : Stored(g, t)' = Stored(g, t)
      /\ neg' = neg /\ got' = got /\ results' = results /\ mixed' = mixed
  BY <1>0, MoveFrame
<1>2. \A g \in Endpoint : Local(g)'
  <2> SUFFICES ASSUME NEW g \in Endpoint, g # e PROVE Local(g)'
    OBVIOUS
  <2> QED
    BY <1>0, <1>1, LocalStays DEF Inv
<1>3. Truthful'
  <2>1. Message' = Message /\ Negotiation' = Negotiation
    BY <1>0, FixedOnes
  <2> SUFFICES ASSUME NEW m \in Message, Around(m)' PROVE Truth(m)'
    BY <2>1 DEF Truthful
  <2>2. \/ Around(m)
        \/ m.type \in S /\ m = Msg(e, m.type) /\ m.from = e /\ m.neg = neg[e]
    BY <1>0, MoveSends
  <2>3. Around(m) => Truth(m)
    BY DEF Inv, Truthful
  <2>4. CASE m.from = e /\ m.neg = neg[e]
    BY <2>2, <2>3, <2>4
  <2>5. CASE Around(m) /\ m.from # e
    BY <1>0, <1>1, <2>3, <2>5, TruthStays, MessageFields
  <2>6. CASE Around(m) /\ m.from = e /\ m.neg # neg[e]
    BY <1>0, <1>1, <2>1, <2>3, <2>6, FixedOnes DEF Truth
  <2> QED
    BY <2>2, <2>4, <2>5, <2>6
<1>4. Fresh'
  <2>1. \A g \in Endpoint : \A t \in MessageType : FreshStore(g, t)'
    BY <1>1 DEF Inv, Fresh, FreshStore
  <2>2. ASSUME NEW m \in net' PROVE FreshMessage(m)'
    <3>1. CASE m \in net
      BY <3>1, <1>1 DEF Inv, Fresh, FreshMessage
    <3>2. CASE m \notin net
      <4>1. PICK t \in S : m = Msg(e, t)
        BY <3>2 DEF Moves, Send
      <4>2. m.from = e /\ m.neg = neg[e] /\ m.type = t
        BY <1>0, <4>1, MsgIsMessage DEF Moves
      <4>3. ASSUME neg[e] < neg[f], ~Mixed(neg[f] - 1)
            PROVE  m.type = "Confirm2"
        <5>1. phase[e] \in {"conf2", "failed"}
          BY <1>0, <4>3, OnlyConfirm2IsLate DEF Moves
        <5> QED
          BY <5>1, <4>2 DEF Moves
      <4>4. neg' = neg /\ mixed' = mixed
        BY <1>1
      <4> QED
        BY <4>2, <4>3, <4>4 DEF FreshMessage, Mixed
    <3> QED
      BY <3>1, <3>2
  <2> QED
    BY <2>1, <2>2 DEF Fresh
<1>5. AllAgreed'
  BY <1>0, FixedOnes DEF AllAgreed
<1>6. NeverCrashes'
  BY <1>0, <1>1 DEF Inv, NeverCrashes
<1> QED
  BY <1>0, <1>2, <1>3, <1>4, <1>5, <1>6 DEF Inv

-----------------------------------------------------------------------------
(* Agreed, through a move of e *)

\* The negotiations that e has completed.  Only at a Hello does it matter what
\* e does.
LEMMA AheadStays ==
  ASSUME Inv, NEW e \in Endpoint, NEW S, Moves(e, S), NEW n \in Negotiation,
         phase[e] = "hello" =>
           \/ Stored(e, "HelloACK")
           \/ /\ phase'[e] \in {"hello", "failed"}
              /\ S \subseteq {"Hello", "HelloACK"}
  PROVE  Agreed(e, Peer(e), n)'
<1> DEFINE f == Peer(e)
<1>0. TypeInv /\ f \in Endpoint /\ f # e /\ Peer(f) = e /\ n \in Nat \ {0}
      /\ neg[e] \in Nat
  BY Endpoints, ModesAreKnown, NegIsNat DEF Inv, Negotiation
<1>1. /\ phase'[f] = phase[f] /\ r_msg'[f] = r_msg[f] /\ s0'[f] = s0[f]
      /\ Mixed(n)' = Mixed(n) /\ MixedAgain(n)' = MixedAgain(n)
      /\ \A g : Completed(g, n)' = Completed(g, n)
      /\ neg' = neg /\ got' = got /\ results' = results /\ mixed' = mixed
      /\ larger' = larger /\ Modes' = Modes /\ Message' = Message
  BY <1>0, MoveFrame, MoveFixes, FixedOnes DEF Fixed
<1>2. Agreed(e, f, n)
  BY DEF Inv, AllAgreed
<1> SUFFICES ASSUME Completed(e, n), ~MixedAgain(n),
                    ~(Completed(f, n) /\ results[f][n] = results[e][n]),
                    results[e][n].initiator = f
             PROVE  Behind(e, f, n)' \/ TooSoon(e, f, n)'
  BY <1>1, <1>2 DEF Agreed
<1>3. CASE Behind(e, f, n)
  BY <1>1, <1>3 DEF Behind
<1>4. CASE TooSoon(e, f, n)
  <2>1. neg[e] = n + 1 /\ phase[e] = "hello"
    <3>1. neg[e] # n
      BY <1>0, CompletedOnes DEF Moves
    <3> QED
      BY <1>4, <3>1 DEF TooSoon, Moves
  <2>2. \A m \in Message : Around(m) /\ m.from = f => m.type # "HelloACK"
    BY <1>4, <1>0, <2>1 DEF TooSoon
  <2>3. ~Stored(e, "HelloACK")
    <3>1. "HelloACK" \in MessageType
      BY DEF MessageType
    <3> QED
      BY <1>0, <2>2, <3>1, StoredIsAround
  <2>4. phase'[e] \in {"hello", "failed"} /\ S \subseteq {"Hello", "HelloACK"}
    BY <2>1, <2>3
  <2>5. \A m \in Message : Around(m)' =>
          Around(m) \/ (m.from = e /\ m.type \in {"Hello", "HelloACK"})
    BY <1>0, <2>4, MoveSends
  <2> QED
    BY <1>0, <1>1, <1>4, <2>1, <2>4, <2>5 DEF TooSoon
<1> QED
  BY <1>2, <1>3, <1>4 DEF Agreed

\* The negotiations that its peer has completed, when e does not commit.
LEMMA BehindStays ==
  ASSUME Inv, NEW e \in Endpoint, NEW S, Moves(e, S), NEW n \in Negotiation,
         phase[e] # "commit",
         phase[e] \in {"dh2", "conf2"} =>
           /\ s0'[e] = s0[e]
           /\ phase'[e] \in {"conf2", "failed", phase[e]}
  PROVE  Agreed(Peer(e), e, n)'
<1> DEFINE f == Peer(e)
<1>0. TypeInv /\ f \in Endpoint /\ f # e /\ Peer(f) = e
  BY Endpoints DEF Inv
<1>1. /\ Mixed(n)' = Mixed(n) /\ MixedAgain(n)' = MixedAgain(n)
      /\ \A g : Completed(g, n)' = Completed(g, n)
      /\ neg' = neg /\ results' = results /\ mixed' = mixed
  BY <1>0, MoveFrame
<1>2. Agreed(f, e, n)
  BY <1>0 DEF Inv, AllAgreed
<1> SUFFICES ASSUME Completed(f, n), ~MixedAgain(n),
                    ~(Completed(e, n) /\ results[e][n] = results[f][n]),
                    results[f][n].initiator = e
             PROVE  Behind(f, e, n)'
  BY <1>1, <1>2 DEF Agreed
<1>3. ~TooSoon(f, e, n)
  BY DEF TooSoon, Moves
<1>4. Behind(f, e, n)
  BY <1>2, <1>3 DEF Agreed
<1> QED
  BY <1>1, <1>4 DEF Behind, Moves

\* ... and when e commits.
LEMMA CommitStays ==
  ASSUME Inv, NEW e \in Endpoint, NEW S, Moves(e, S), NEW n \in Negotiation,
         phase[e] = "commit",
         Completed(Peer(e), n) /\ ~MixedAgain(n) /\ TooSoon(Peer(e), e, n) =>
           \/ Behind(Peer(e), e, n)'
           \/ /\ \/ phase'[e] = "failed"
                 \/ phase'[e] = "commit" /\ r_msg'[e] = r_msg[e]
              /\ S \subseteq {"Commit"}
  PROVE  Agreed(Peer(e), e, n)'
<1> DEFINE f == Peer(e)
<1>0. TypeInv /\ f \in Endpoint /\ f # e /\ Peer(f) = e
  BY Endpoints DEF Inv
<1>1. /\ phase'[f] = phase[f]
      /\ Mixed(n)' = Mixed(n) /\ MixedAgain(n)' = MixedAgain(n)
      /\ \A g : Completed(g, n)' = Completed(g, n)
      /\ neg' = neg /\ results' = results /\ mixed' = mixed
      /\ larger' = larger /\ Modes' = Modes /\ Message' = Message
  BY <1>0, MoveFrame, MoveFixes, FixedOnes DEF Fixed
<1>2. Agreed(f, e, n)
  BY <1>0 DEF Inv, AllAgreed
<1> SUFFICES ASSUME Completed(f, n), ~MixedAgain(n),
                    ~(Completed(e, n) /\ results[e][n] = results[f][n]),
                    results[f][n].initiator = e
             PROVE  Behind(f, e, n)' \/ TooSoon(f, e, n)'
  BY <1>1, <1>2 DEF Agreed
<1>3. TooSoon(f, e, n)
  BY <1>2 DEF Agreed, Behind
<1>4. CASE Behind(f, e, n)'
  BY <1>4
<1>5. CASE /\ \/ phase'[e] = "failed"
              \/ phase'[e] = "commit" /\ r_msg'[e] = r_msg[e]
           /\ S \subseteq {"Commit"}
  <2>1. \A m \in Message : Around(m)' =>
          Around(m) \/ (m.from = e /\ m.type = "Commit")
    BY <1>0, <1>5, MoveSends
  <2> QED
    BY <1>0, <1>1, <1>3, <1>5, <2>1 DEF TooSoon
<1> QED
  BY <1>3, <1>4, <1>5

-----------------------------------------------------------------------------
(* The moves of each phase *)

Telling == {"Commit", "DHPart2", "Confirm1", "Confirm2", "Conf2ACK", "DHPart1"}

\* What is left to show of a message of e's negotiation, if it is not a new one
\* that ends the negotiation.
LEMMA TruthAfter ==
  ASSUME Inv, NEW e \in Endpoint, NEW S, Moves(e, S),
         "Conf2ACK" \notin S, "DHPart1" \in S => Mode(e) = "dh",
         NEW m \in Message, m.from = e, m.neg = neg[e],
         Truth(m) \/ m.type \in S,
         Current(m)'
  PROVE  Truth(m)'
<1>1. /\ TypeInv /\ neg' = neg /\ Modes' = Modes /\ neg[e] \in Nat
      /\ \A g, n : Completed(g, n)' = Completed(g, n)
  BY MoveFrame, MoveFixes, FixedOnes, NegIsNat DEF Inv
<1> QED
  BY <1>1 DEF Truth, Mode

\* Before e commits there is no message of its negotiation that tells anything.
LEMMA NothingToTell ==
  ASSUME Inv, NEW e \in Endpoint, NEW m \in Message, Truth(m),
         m.from = e, m.neg = neg[e], phase[e] \in {"hello", "agree", "commit"}
  PROVE  /\ m.type \notin {"DHPart2", "Confirm1", "Confirm2"}
         /\ phase[e] # "commit" => m.type # "Commit"
BY DEF Truth, Current

LEMMA EarlyTruth ==
  ASSUME Inv, NEW e \in Endpoint, NEW S, Moves(e, S),
         phase[e] \in {"hello", "agree"}, S \subseteq {"Hello", "HelloACK"},
         NEW m \in Message, m.from = e, m.neg = neg[e],
         Truth(m) \/ m.type \in S
  PROVE  Truth(m)'
<1>1. m.type \notin {"Commit", "DHPart2", "Confirm1", "Confirm2"}
  BY NothingToTell
<1>2. Current(m)'
  BY <1>1 DEF Current
<1> QED
  BY <1>2, TruthAfter

LEMMA CommitTruth ==
  ASSUME Inv, NEW e \in Endpoint, NEW S, Moves(e, S),
         phase[e] = "commit", S \subseteq {"Commit"},
         phase'[e] \notin {"hello", "agree"},
         phase'[e] \in {"dh1", "conf1"} => ~are_we_initiator(e),
         NEW m \in Message, m.from = e, m.neg = neg[e],
         Truth(m) \/ m.type \in S
  PROVE  Truth(m)'
<1>1. m.type \notin {"DHPart2", "Confirm1", "Confirm2"}
  BY NothingToTell
<1>2. are_we_initiator(e)' = are_we_initiator(e)
  BY DEF Moves, are_we_initiator
<1>3. Current(m)'
  BY <1>1, <1>2 DEF Current
<1> QED
  BY <1>3, TruthAfter

\* The secrets of e stay, and it does not commit.
LEMMA LateTruth ==
  ASSUME Inv, NEW e \in Endpoint, NEW S, Moves(e, S),
         phase[e] \in {"dh1", "dh2", "conf1", "conf2"},
         phase'[e] \in {phase[e], "conf2", "failed"},
         phase'[e] = "conf2" => phase[e] \in {"dh2", "conf2"},
         r_msg'[e] = r_msg[e], s0'[e] = s0[e],
         S \subseteq {"DHPart1", "DHPart2", "Confirm1", "Confirm2"},
         "DHPart1" \in S => phase[e] = "dh1",
         "DHPart2" \in S => phase[e] = "dh2",
         "Confirm1" \in S => phase[e] = "conf1",
         "Confirm2" \in S => phase[e] = "conf2",
         NEW m \in Message, m.from = e, m.neg = neg[e],
         Truth(m) \/ m.type \in S
  PROVE  Truth(m)'
<1>0. /\ TypeInv /\ Modes' = Modes /\ neg' = neg /\ got' = got
      /\ \A t : Stored(e, t)' = Stored(e, t)
      /\ Local(e)
  BY MoveFrame, MoveFixes, FixedOnes DEF Inv
<1>1. /\ Greeted(e)' = Greeted(e)
      /\ \A t : HasPart(e, t)' <=> HasPart(e, t)
      /\ \A r : HasKeys(e, r)' <=> HasKeys(e, r)
  BY <1>0 DEF Greeted, HasPart, HasKeys, Mode, generate_shared_secrets
<1>11. Derived(e) => Derived(e)'
  BY <1>1 DEF Derived
<1>2. are_we_initiator(e)' = are_we_initiator(e)
  BY DEF Moves, are_we_initiator
<1>3. Truth(m) => Current(m)
  BY DEF Truth
<1>4. phase'[e] \in {"dh1", "dh2", "conf1", "conf2", "failed"}
  OBVIOUS
<1>5. ASSUME m.type = "Commit"
      PROVE  phase'[e] \in {"dh1", "conf1"} => ~are_we_initiator(e)
  BY <1>3, <1>5 DEF Current
<1>6. ASSUME m.type = "DHPart2"
      PROVE  phase'[e] \notin {"dh1", "conf1"} /\ Derived(e)
  <2>1. phase[e] \in {"dh2", "conf2"} /\ Derived(e)
    BY <1>0, <1>3, <1>6 DEF Current, Local
  <2> QED
    BY <2>1
<1>7. ASSUME m.type = "Confirm1"
      PROVE  phase'[e] # "dh1" /\ HasPart(e, "DHPart2")
  <2>1. phase[e] # "dh1" /\ HasPart(e, "DHPart2")
    <3>1. CASE Truth(m)
      BY <1>3, <1>7, <3>1 DEF Current
    <3>2. CASE m.type \in S
      BY <1>0, <1>7, <3>2 DEF Local
    <3> QED
      BY <3>1, <3>2
  <2> QED
    BY <2>1
<1>8. ASSUME m.type = "Confirm2"
      PROVE  phase'[e] \in {"conf2", "failed"} /\ Derived(e)
  <2>1. phase[e] = "conf2" /\ Derived(e)
    BY <1>0, <1>3, <1>8 DEF Current, Local
  <2> QED
    BY <2>1
<1>10. Current(m)'
  BY <1>1, <1>2, <1>4, <1>5, <1>6, <1>7, <1>8, <1>11 DEF Current
<1>9. phase[e] = "dh1" => Mode(e) = "dh"
  BY <1>0 DEF Local
<1> QED
  BY <1>9, <1>10, TruthAfter

-----------------------------------------------------------------------------
(* begin_session *)

LEMMA KeepHelloKeeps ==
  ASSUME TypeInv, NEW e \in Endpoint, KeepHello(e)
  PROVE  /\ r_msg' = [r_msg EXCEPT ![e] = r_msg'[e]]
         /\ r_msg'[e] \in RMsg
         /\ Stored(e, "Hello") => r_msg'[e].hello = got[e]["Hello"].neg
<1>1. r_msg \in [Endpoint -> RMsg]
  BY DEF TypeInv
<1>2. CASE ~Stored(e, "Hello")
  BY <1>1, <1>2 DEF KeepHello
<1>3. CASE Stored(e, "Hello")
  <2>1. got[e]["Hello"].neg \in 0 .. Len(Modes)
    <3>1. "Hello" \in MessageType
      BY DEF MessageType
    <3>2. got[e]["Hello"].neg \in Negotiation
      BY <1>3, <3>1, StoredIsAround
    <3> QED
      BY <3>2 DEF Negotiation
  <2>2. r_msg' = [r_msg EXCEPT ![e].hello = got[e]["Hello"].neg]
    BY <1>3 DEF KeepHello
  <2>3. r_msg'[e] = [r_msg[e] EXCEPT !.hello = got[e]["Hello"].neg]
    BY <1>1, <2>2
  <2>4. r_msg' = [r_msg EXCEPT ![e] = r_msg'[e]]
    BY <1>1, <2>2, <2>3
  <2>5. r_msg'[e] \in RMsg
    BY <1>1, <2>1, <2>3 DEF RMsg
  <2>6. r_msg'[e].hello = got[e]["Hello"].neg
    BY <1>1, <2>3 DEF RMsg
  <2> QED
    BY <2>4, <2>5, <2>6
<1> QED
  BY <1>2, <1>3

\* A step of the Hello loop.
LEMMA HelloMoves ==
  ASSUME Inv, NEW e \in Endpoint, NEW S, S \subseteq {"Hello", "HelloACK"},
         phase[e] = "hello", Send(e, S), KeepHello(e),
         phase' = [phase EXCEPT ![e] = phase'[e]],
         phase'[e] \in {"hello", "agree", "failed"},
         phase'[e] = "agree" => HelloAnswered(e),
         tries' \in [Endpoint -> Nat],
         UNCHANGED <<neg, got, role, s0, confirmKeys, results>>, Unchanged
  PROVE  Inv'
<1>0. TypeInv /\ r_msg' = [r_msg EXCEPT ![e] = r_msg'[e]] /\ r_msg'[e] \in RMsg
  BY KeepHelloKeeps DEF Inv
<1>1. Moves(e, S)
  <2>1. MoveTypes(e)
    BY <1>0 DEF MoveTypes, TypeInv, Phases
  <2> QED
    BY <2>1 DEF Moves, Unchanged, fixed, MessageType
<1>2. Local(e)'
  <2>1. phase'[e] = "agree" => Greeted(e)'
    BY <1>0, KeepHelloKeeps DEF Greeted, Stored, HelloAnswered
  <2> QED
    BY <2>1 DEF Local
<1>3. \A m \in Message :
        /\ m.from = e /\ m.neg = neg[e]
        /\ (Around(m) /\ Truth(m)) \/ (m.type \in S /\ m = Msg(e, m.type))
        => Truth(m)'
  BY <1>1, EarlyTruth
<1>4. \A n \in Negotiation : Agreed(e, Peer(e), n)'
  BY <1>1, AheadStays DEF HelloAnswered
<1>5. \A n \in Negotiation : Agreed(Peer(e), e, n)'
  BY <1>1, BehindStays
<1> QED
  BY <1>1, <1>2, <1>3, <1>4, <1>5, MoveKeeps

\* Sending again, and giving up.
LEMMA ResendCounts ==
  ASSUME TypeInv, NEW e \in Endpoint, NEW types, NEW limit,
         Resend(e, types, limit)
  PROVE  /\ Send(e, types)
         /\ phase' = [phase EXCEPT ![e] = phase'[e]]
         /\ phase'[e] \in {phase[e], "failed"}
         /\ tries' \in [Endpoint -> Nat]
<1>0. phase \in [Endpoint -> Phases] /\ tries \in [Endpoint -> Nat]
  BY DEF TypeInv
<1>1. CASE patient
  BY <1>0, <1>1 DEF Resend, Stay
<1>2. CASE ~patient
  <2>1. tries' = [tries EXCEPT ![e] = @ + 1] /\ tries[e] \in Nat
    BY <1>0, <1>2 DEF Resend
  <2>2. tries' \in [Endpoint -> Nat]
    BY <1>0, <2>1
  <2>3. phase' = phase \/ phase' = [phase EXCEPT ![e] = "failed"]
    BY <1>2 DEF Resend
  <2>4. Send(e, types)
    BY DEF Resend
  <2>5. phase' = [phase EXCEPT ![e] = phase'[e]]
        /\ phase'[e] \in {phase[e], "failed"}
    BY <1>0, <2>3
  <2> QED
    BY <2>2, <2>4, <2>5
<1> QED
  BY <1>1, <1>2

LEMMA GotoGoes ==
  ASSUME TypeInv, NEW e \in Endpoint, NEW p, Goto(e, p)
  PROVE  /\ phase' = [phase EXCEPT ![e] = phase'[e]]
         /\ phase'[e] = p
         /\ tries' \in [Endpoint -> Nat]
BY DEF Goto, TypeInv

LEMMA HelloKeeps ==
  ASSUME Inv, NEW e \in Endpoint,
         AnswerHello(e) \/ SendHello(e) \/ HelloDone(e)
  PROVE  Inv'
<1>0. TypeInv
  BY DEF Inv
<1>1. CASE AnswerHello(e)
  <2>1. phase' = [phase EXCEPT ![e] = phase'[e]] /\ tries' \in [Endpoint -> Nat]
        /\ phase'[e] = "hello"
    BY <1>0, <1>1 DEF AnswerHello, TypeInv
  <2> QED
    BY <1>1, <2>1, HelloMoves DEF AnswerHello
<1>2. CASE SendHello(e)
  <2>1. {"Hello"} \cup Answers(e) \subseteq {"Hello", "HelloACK"}
    BY DEF Answers
  <2>2. /\ Send(e, {"Hello"} \cup Answers(e))
        /\ phase' = [phase EXCEPT ![e] = phase'[e]]
        /\ phase'[e] \in {"hello", "failed"}
        /\ tries' \in [Endpoint -> Nat]
    BY <1>0, <1>2, ResendCounts DEF SendHello
  <2> QED
    BY <1>2, <2>1, <2>2, HelloMoves DEF SendHello
<1>3. CASE HelloDone(e)
  <2>1. /\ phase' = [phase EXCEPT ![e] = phase'[e]]
        /\ phase'[e] = "agree"
        /\ tries' \in [Endpoint -> Nat]
    BY <1>0, <1>3, GotoGoes DEF HelloDone
  <2> QED
    BY <1>3, <2>1, HelloMoves DEF HelloDone
<1> QED
  BY <1>1, <1>2, <1>3

-----------------------------------------------------------------------------
(* init_session *)

\* A move that sends nothing.
LEMMA SilentMoves ==
  ASSUME Inv, NEW e \in Endpoint, phase[e] \notin {"idle", "failed", "crashed"},
         UNCHANGED <<net, neg, got, results>>, Unchanged,
         MoveTypes(e)
  PROVE  Moves(e, {})
<1>1. Send(e, {})
  BY DEF Send
<1> QED
  BY <1>1 DEF Moves, Unchanged, fixed

LEMMA ProposeCommitKeeps ==
  ASSUME Inv, NEW e \in Endpoint, ProposeCommit(e)
  PROVE  Inv'
<1>0. TypeInv /\ Local(e) /\ phase[e] = "agree"
  BY DEF Inv, ProposeCommit
<1>1. /\ phase' = [phase EXCEPT ![e] = phase'[e]] /\ phase'[e] = "commit"
      /\ tries' \in [Endpoint -> Nat]
      /\ role' = [role EXCEPT ![e] = role'[e]] /\ role'[e] = "INITIATOR"
  BY <1>0, GotoGoes DEF ProposeCommit, TypeInv
<1>2. Moves(e, {})
  <2>1. MoveTypes(e)
    BY <1>0, <1>1 DEF MoveTypes, ProposeCommit, TypeInv, Phases, Roles
  <2> QED
    BY <1>0, <2>1, SilentMoves DEF ProposeCommit
<1>3. Local(e)'
  <2>1. Greeted(e)'
    BY <1>0 DEF Local, Greeted, Stored, ProposeCommit
  <2> QED
    BY <1>1, <2>1 DEF Local
<1>4. \A m \in Message : m.from = e /\ m.neg = neg[e] /\ Truth(m) => Truth(m)'
  BY <1>0, <1>2, EarlyTruth
<1>5. \A n \in Negotiation : Agreed(e, Peer(e), n)' /\ Agreed(Peer(e), e, n)'
  BY <1>0, <1>2, AheadStays, BehindStays
<1> QED
  BY <1>0, <1>1, <1>2, <1>3, <1>4, <1>5, MoveKeeps

\* e becomes the responder.
LEMMA RespondMoves ==
  ASSUME Inv, NEW e \in Endpoint, Respond(e), Stored(e, "Commit"),
         phase[e] \in {"agree", "commit"}
  PROVE  Moves(e, {}) /\ Local(e)' /\ phase'[e] \in {"dh1", "conf1"}
<1> DEFINE remote == [r_msg[e] EXCEPT !.commit = got[e]["Commit"].neg]
<1>0. TypeInv /\ Local(e) /\ r_msg \in [Endpoint -> RMsg]
      /\ s0 \in [Endpoint -> Keys] /\ role \in [Endpoint -> Roles]
      /\ neg[e] \in Negotiation
  BY NegIsNat DEF Inv, TypeInv
<1>1. remote \in RMsg /\ remote.commit = got[e]["Commit"].neg
      /\ remote.hello = r_msg[e].hello
  <2>1. got[e]["Commit"].neg \in 0 .. Len(Modes)
    <3>1. "Commit" \in MessageType
      BY DEF MessageType
    <3>2. got[e]["Commit"].neg \in Negotiation
      BY <1>0, <3>1, StoredIsAround
    <3> QED
      BY <3>2 DEF Negotiation
  <2> QED
    BY <1>0, <2>1 DEF RMsg
<1>2. /\ r_msg' = [r_msg EXCEPT ![e] = remote]
      /\ role' = [role EXCEPT ![e] = "RESPONDER"]
      /\ UNCHANGED <<net, neg, got, confirmKeys, results>> /\ Unchanged
  BY DEF Respond
<1>3. r_msg'[e] = remote /\ role'[e] = "RESPONDER"
  BY <1>0, <1>2
<1>4. Fixed /\ Modes' = Modes /\ neg' = neg /\ got' = got /\ Mode(e)' = Mode(e)
  <2>1. Fixed
    BY <1>2 DEF Fixed, Unchanged, fixed
  <2> QED
    BY <1>2, <2>1, FixedOnes DEF Mode
<1>5. /\ phase' = [phase EXCEPT ![e] = phase'[e]]
      /\ tries' \in [Endpoint -> Nat]
      /\ s0' = [s0 EXCEPT ![e] = s0'[e]]
      /\ s0'[e] \in Keys
      /\ \/ phase'[e] = "dh1" /\ Mode(e) = "dh"
         \/ /\ phase'[e] = "conf1" /\ Mode(e) # "dh"
            /\ s0'[e] = generate_shared_secrets(e, "RESPONDER", remote)
  <2>1. CASE Mode(e) = "dh"
    <3>1. Goto(e, "dh1") /\ UNCHANGED s0
      BY <2>1 DEF Respond
    <3> QED
      BY <1>0, <2>1, <3>1, GotoGoes
  <2>2. CASE Mode(e) # "dh"
    <3> DEFINE k == generate_shared_secrets(e, "RESPONDER", remote)
    <3>1. Goto(e, "conf1") /\ s0' = [s0 EXCEPT ![e] = k]
      BY <2>2 DEF Respond
    <3>2. k \in Keys
      BY <1>0, <1>1, SecretsAreKeys
    <3> HIDE DEF k
    <3>3. s0'[e] = k /\ s0' = [s0 EXCEPT ![e] = s0'[e]]
      BY <1>0, <3>1
    <3> QED
      BY <1>0, <2>2, <3>1, <3>2, <3>3, GotoGoes DEF k
  <2> QED
    BY <2>1, <2>2
<1>6. MoveTypes(e)
  <2>1. confirmKeys' = [confirmKeys EXCEPT ![e] = confirmKeys'[e]]
        /\ confirmKeys'[e] \in Keys
    BY <1>2 DEF TypeInv, Inv
  <2>2. phase'[e] \in Phases \ {"idle"} /\ role'[e] \in Roles
    BY <1>3, <1>5 DEF Phases, Roles
  <2> QED
    BY <1>1, <1>2, <1>3, <1>5, <2>1, <2>2 DEF MoveTypes
<1>7. Moves(e, {})
  BY <1>2, <1>6, SilentMoves
<1>8. Local(e)'
  <2>1. Greeted(e)'
    BY <1>0, <1>1, <1>3, <1>4 DEF Local, Greeted, Stored
  <2>2. HasCommit(e)'
    BY <1>1, <1>3, <1>4 DEF HasCommit, Stored
  <2>3. phase'[e] = "conf1" =>
          HasKeys(e, "RESPONDER")' /\ HasPart(e, "DHPart2")'
    BY <1>3, <1>4, <1>5 DEF HasKeys, HasPart, generate_shared_secrets, Mode
  <2> QED
    BY <1>3, <1>4, <1>5, <2>1, <2>2, <2>3 DEF Local
<1> QED
  BY <1>5, <1>7, <1>8

LEMMA AlreadyCommittedKeeps ==
  ASSUME Inv, NEW e \in Endpoint, AlreadyCommitted(e)
  PROVE  Inv'
<1>1. Moves(e, {}) /\ Local(e)' /\ phase'[e] \in {"dh1", "conf1"}
      /\ phase[e] = "agree"
  BY RespondMoves DEF AlreadyCommitted
<1>2. \A m \in Message : m.from = e /\ m.neg = neg[e] /\ Truth(m) => Truth(m)'
  BY <1>1, EarlyTruth
<1>3. \A n \in Negotiation : Agreed(e, Peer(e), n)' /\ Agreed(Peer(e), e, n)'
  BY <1>1, AheadStays, BehindStays
<1> QED
  BY <1>1, <1>2, <1>3, MoveKeeps

\* While its peer is done too soon, e does not give way to it.
LEMMA TooSoonStores ==
  ASSUME Inv, NEW e \in Endpoint, NEW n \in Negotiation,
         TooSoon(Peer(e), e, n), ~MixedAgain(n), phase[e] = "commit"
  PROVE  /\ ~GivesWay(e)
         /\ ~Stored(e, "DHPart1")
         /\ Mode(e) = "msm"
         /\ neg[e] = n
<1>0. TypeInv /\ neg[e] = n
  BY DEF Inv, TooSoon
<1>1. ASSUME NEW t \in {"Commit", "DHPart1"}, Stored(e, t)
      PROVE  t = "Commit" /\ larger[n] = e
  <2>1. t \in MessageType
    BY DEF MessageType
  <2>2. got[e][t] \in Message /\ Around(got[e][t]) /\ got[e][t].type = t
        /\ got[e][t].from = Peer(e)
    BY <1>0, <1>1, <2>1, StoredIsAround
  <2>3. n <= got[e][t].neg
    BY <1>0, <1>1, <2>1, StoredIsFresh
  <2> QED
    BY <2>2, <2>3 DEF TooSoon
<1> QED
  BY <1>0, <1>1 DEF TooSoon, GivesWay, are_we_initiator, Mode

LEMMA CommitContentionKeeps ==
  ASSUME Inv, NEW e \in Endpoint, CommitContention(e)
  PROVE  Inv'
<1>1. Moves(e, {}) /\ Local(e)' /\ phase'[e] \in {"dh1", "conf1"}
      /\ phase[e] = "commit" /\ ~are_we_initiator(e)
  BY RespondMoves DEF CommitContention, GivesWay
<1>2. \A m \in Message : m.from = e /\ m.neg = neg[e] /\ Truth(m) => Truth(m)'
  BY <1>1, CommitTruth
<1>3. \A n \in Negotiation : Agreed(e, Peer(e), n)' /\ Agreed(Peer(e), e, n)'
  BY <1>1, AheadStays, CommitStays, TooSoonStores DEF CommitContention
<1> QED
  BY <1>1, <1>2, <1>3, MoveKeeps

LEMMA SendCommitKeeps ==
  ASSUME Inv, NEW e \in Endpoint, SendCommit(e) \/ CommitTimeout(e)
  PROVE  Inv'
<1> DEFINE S == IF SendCommit(e) THEN {"Commit"} ELSE {}
<1>0. /\ TypeInv /\ Local(e) /\ phase[e] = "commit"
      /\ UNCHANGED <<neg, got, keyVars, results>> /\ Unchanged
  BY DEF Inv, SendCommit, CommitTimeout
<1>1. /\ phase' = [phase EXCEPT ![e] = phase'[e]]
      /\ phase'[e] \in {"commit", "failed"}
      /\ tries' \in [Endpoint -> Nat]
      /\ Send(e, S)
  <2>1. CASE SendCommit(e)
    <3>1. phase' = phase /\ Send(e, S)
      BY <2>1 DEF SendCommit, Stay
    <3>2. tries' \in [Endpoint -> Nat]
      <4>1. tries \in [Endpoint -> Nat]
        BY <1>0 DEF TypeInv
      <4>2. tries' = tries \/ tries' = [tries EXCEPT ![e] = @ + 1]
        BY <2>1 DEF SendCommit, Stay
      <4> QED
        BY <4>1, <4>2
    <3> QED
      BY <1>0, <3>1, <3>2 DEF TypeInv
  <2>2. CASE ~SendCommit(e)
    <3>1. Goto(e, "failed") /\ UNCHANGED net
      BY <2>2 DEF CommitTimeout
    <3> QED
      BY <1>0, <2>2, <3>1, GotoGoes DEF Send
  <2> QED
    BY <2>1, <2>2
<1>2. S \subseteq {"Commit"}
  OBVIOUS
<1> HIDE DEF S
<1>3. Moves(e, S)
  <2>1. MoveTypes(e)
    BY <1>0, <1>1 DEF MoveTypes, TypeInv, Phases, keyVars
  <2> QED
    BY <1>0, <1>1, <1>2, <2>1 DEF Moves, Unchanged, fixed, MessageType
<1>4. Local(e)'
  <2>1. Greeted(e)'
    BY <1>0 DEF Local, Greeted, Stored, keyVars
  <2> QED
    BY <1>0, <1>1, <2>1 DEF Local, keyVars
<1>5. \A m \in Message :
        /\ m.from = e /\ m.neg = neg[e]
        /\ (Around(m) /\ Truth(m)) \/ (m.type \in S /\ m = Msg(e, m.type))
        => Truth(m)'
  BY <1>0, <1>1, <1>2, <1>3, CommitTruth
<1>6. r_msg'[e] = r_msg[e]
  BY <1>0 DEF keyVars
<1>7. \A n \in Negotiation : Agreed(e, Peer(e), n)' /\ Agreed(Peer(e), e, n)'
  BY <1>0, <1>1, <1>2, <1>3, <1>6, AheadStays, CommitStays
<1> QED
  BY <1>0, <1>1, <1>3, <1>4, <1>5, <1>7, MoveKeeps

-----------------------------------------------------------------------------
(* dh_part1, dh_part2 *)

\* The answer to a Commit is the one that the mode asks for.
LEMMA AnswerIsRight ==
  ASSUME Inv, NEW e \in Endpoint, CommitAnswered(e), ~MixedAgain(neg[e])
  PROVE  /\ Mode(e) = "dh" => Stored(e, "DHPart1")
         /\ Mode(e) = "msm" => Stored(e, "Confirm1")
<1> DEFINE f == Peer(e)
           n == neg[e]
<1>0. /\ TypeInv /\ f \in Endpoint /\ Peer(f) = e /\ phase[e] = "commit"
      /\ n \in Negotiation /\ n \in Nat \ {0} /\ neg[f] \in Nat
      /\ Truthful
      /\ {"DHPart1", "DHPart2", "Confirm1"} \subseteq MessageType
  BY Endpoints, NegIsNat, ModesAreKnown
     DEF Inv, CommitAnswered, MessageType, Negotiation
<1>1. ~Completed(e, n)
  BY <1>0, CompletedOnes
<1>2. CASE Completed(f, n)
  <2>1. Agreed(f, e, n)
    BY <1>0 DEF Inv, AllAgreed
  <2>2. TooSoon(f, e, n)
    BY <1>0, <1>1, <1>2, <2>1 DEF Agreed, Behind
  <2> QED
    BY <1>0, <2>2, TooSoonStores DEF CommitAnswered
<1>3. CASE ~Completed(f, n)
  <2>1. ASSUME NEW t \in {"DHPart1", "Confirm1"}, Stored(e, t)
        PROVE  /\ got[e][t] \in Message /\ Truth(got[e][t])
               /\ got[e][t].from = f /\ got[e][t].type = t
               /\ got[e][t].neg = n /\ neg[f] = n
    <3>1. got[e][t] \in Message /\ got[e][t].from = f /\ got[e][t].type = t
          /\ Truth(got[e][t]) /\ got[e][t].neg \in Negotiation
      BY <1>0, <2>1, StoredIsAround DEF Truthful
    <3>2. n <= got[e][t].neg /\ got[e][t].neg <= neg[f]
          /\ (n = neg[f] => got[e][t].neg = n)
      BY <1>0, <2>1, StoredIsFresh
    <3>3. neg[f] = n
      <4>1. got[e][t].neg \in Nat
        BY <1>0, <3>1, MessageFields
      <4>2. ~(n < neg[f])
        BY <1>0, <1>3, CompletedOnes
      <4> QED
        BY <1>0, <3>2, <4>1, <4>2
    <3> QED
      BY <3>1, <3>2, <3>3
  <2>2. ASSUME Stored(e, "DHPart1") PROVE Mode(e) = "dh"
    BY <2>1, <2>2 DEF Truth, Mode
  <2>3. ASSUME Stored(e, "Confirm1"), Mode(e) = "dh" PROVE FALSE
    <3>1. neg[f] = n /\ Current(got[e]["Confirm1"])
          /\ got[e]["Confirm1"].from = f /\ got[e]["Confirm1"].type = "Confirm1"
      BY <2>1, <2>3 DEF Truth
    <3>2. HasPart(f, "DHPart2")
      BY <3>1 DEF Current
    <3>3. Stored(f, "DHPart2")
      BY <2>3, <3>1, <3>2 DEF HasPart, Mode
    <3>4. got[f]["DHPart2"].neg = n
      BY <1>0, <3>1, <3>3, StoredIsFresh
    <3>5. /\ got[f]["DHPart2"] \in Message /\ Truth(got[f]["DHPart2"])
          /\ got[f]["DHPart2"].from = e /\ got[f]["DHPart2"].type = "DHPart2"
      BY <1>0, <3>3, StoredIsAround DEF Truthful
    <3>6. Current(got[f]["DHPart2"])
      BY <3>4, <3>5 DEF Truth
    <3> QED
      BY <1>0, <3>5, <3>6 DEF Current
  <2>4. Stored(e, "DHPart1") \/ Stored(e, "Confirm1")
    BY DEF CommitAnswered
  <2>5. Mode(e) = "msm" => Mode(e) # "dh"
    OBVIOUS
  <2> QED
    BY <2>2, <2>3, <2>4, <2>5
<1> QED
  BY <1>2, <1>3

LEMMA CrashKeeps ==
  ASSUME Inv, NEW e \in Endpoint, Crash(e), phase[e] = "commit",
         MixedAgain(neg[e]),
         \A n \in Negotiation :
           Completed(Peer(e), n) /\ ~MixedAgain(n) => ~TooSoon(Peer(e), e, n)
  PROVE  Inv'
<1>0. TypeInv /\ Local(e)
  BY DEF Inv
<1>1. /\ phase' = [phase EXCEPT ![e] = phase'[e]] /\ phase'[e] = "crashed"
      /\ tries' \in [Endpoint -> Nat]
  BY <1>0, GotoGoes DEF Crash
<1>2. Moves(e, {})
  <2>1. MoveTypes(e)
    BY <1>0, <1>1 DEF MoveTypes, Crash, keyVars, TypeInv, Phases
  <2> QED
    BY <2>1, SilentMoves DEF Crash
<1>3. Local(e)'
  BY <1>1 DEF Local
<1>4. \A m \in Message : m.from = e /\ m.neg = neg[e] /\ Truth(m) => Truth(m)'
  BY <1>1, <1>2, CommitTruth
<1>5. \A n \in Negotiation : Agreed(e, Peer(e), n)' /\ Agreed(Peer(e), e, n)'
  BY <1>2, AheadStays, CommitStays
<1> QED
  BY <1>1, <1>2, <1>3, <1>4, <1>5, MoveKeeps

\* A Diffie-Hellman message is taken.
LEMMA GenerateMoves ==
  ASSUME Inv, NEW e \in Endpoint, NEW part \in {"DHPart1", "DHPart2"},
         NEW next \in {"dh2", "conf1"}, GenerateSecretsDH(e, part, next),
         Stored(e, part), phase[e] \in {"commit", "dh1"}
  PROVE  /\ Moves(e, {})
         /\ phase'[e] = next /\ role'[e] = role[e]
         /\ Greeted(e)'
         /\ HasCommit(e) => HasCommit(e)'
         /\ s0'[e] = generate_shared_secrets(e, role[e], r_msg'[e])
         /\ r_msg'[e].dh = got[e][part].neg
<1> DEFINE remote == [r_msg[e] EXCEPT !.dh = got[e][part].neg]
           keys == generate_shared_secrets(e, role[e], remote)
<1>0. TypeInv /\ Local(e) /\ r_msg \in [Endpoint -> RMsg]
      /\ s0 \in [Endpoint -> Keys] /\ confirmKeys \in [Endpoint -> Keys]
      /\ part \in MessageType
  BY DEF Inv, TypeInv, MessageType
<1>1. /\ remote \in RMsg /\ remote.dh = got[e][part].neg
      /\ remote.hello = r_msg[e].hello /\ remote.commit = r_msg[e].commit
  <2>1. got[e][part].neg \in 0 .. Len(Modes)
    BY <1>0, StoredIsAround DEF Negotiation
  <2> QED
    BY <1>0, <2>1 DEF RMsg
<1>2. keys \in Keys
  BY <1>0, <1>1, SecretsAreKeys
<1>3. /\ r_msg' = [r_msg EXCEPT ![e] = remote]
      /\ s0' = [s0 EXCEPT ![e] = keys]
      /\ confirmKeys' = [confirmKeys EXCEPT ![e] = keys]
      /\ Goto(e, next)
      /\ UNCHANGED <<net, neg, got, role, results>> /\ Unchanged
  BY DEF GenerateSecretsDH
<1> HIDE DEF keys, remote
<1>4. /\ r_msg'[e] = remote /\ r_msg' = [r_msg EXCEPT ![e] = r_msg'[e]]
      /\ s0'[e] = keys /\ s0' = [s0 EXCEPT ![e] = s0'[e]]
      /\ confirmKeys'[e] = keys
      /\ confirmKeys' = [confirmKeys EXCEPT ![e] = confirmKeys'[e]]
  BY <1>0, <1>3
<1>5. /\ phase' = [phase EXCEPT ![e] = phase'[e]] /\ phase'[e] = next
      /\ tries' \in [Endpoint -> Nat]
  BY <1>0, <1>3, GotoGoes
<1>6. MoveTypes(e)
  <2>1. role' = [role EXCEPT ![e] = role'[e]] /\ role'[e] \in Roles
    BY <1>0, <1>3 DEF TypeInv
  <2>2. phase'[e] \in Phases \ {"idle"}
    BY <1>5 DEF Phases
  <2> QED
    BY <1>1, <1>2, <1>4, <1>5, <2>1, <2>2 DEF MoveTypes
<1>7. Moves(e, {})
  BY <1>3, <1>6, SilentMoves
<1>8. Greeted(e)'
  BY <1>0, <1>1, <1>3, <1>4 DEF Local, Greeted, Stored
<1>9. HasCommit(e) => HasCommit(e)'
  BY <1>1, <1>3, <1>4 DEF HasCommit, Stored
<1> QED
  BY <1>1, <1>3, <1>4, <1>5, <1>7, <1>8, <1>9 DEF keys

\* The keys that e has before and after a step are derived alike.
LEMMA SameDerivation ==
  ASSUME NEW e, Fixed, neg' = neg, got' = got
  PROVE  /\ Mode(e)' = Mode(e)
         /\ \A r : HasKeys(e, r)' <=>
              s0'[e] = generate_shared_secrets(e, r, r_msg'[e])
         /\ \A t : HasPart(e, t)' <=>
              (Mode(e) = "dh" => Stored(e, t) /\ r_msg'[e].dh = got[e][t].neg)
BY FixedOnes DEF HasKeys, HasPart, generate_shared_secrets, Mode, Stored

LEMMA TakeDHPart1Keeps ==
  ASSUME Inv, NEW e \in Endpoint, TakeDHPart1(e)
  PROVE  Inv'
<1>0. TypeInv /\ Local(e) /\ phase[e] = "commit" /\ Mode(e) = "dh"
      /\ role[e] = "INITIATOR"
  BY DEF Inv, TakeDHPart1, CommitAnswered, Local
<1>1. ASSUME NEW n \in Negotiation, Completed(Peer(e), n), ~MixedAgain(n)
      PROVE  ~TooSoon(Peer(e), e, n)
  BY <1>0, <1>1, TooSoonStores
<1>2. CASE Stored(e, "DHPart1")
  <2>1. GenerateSecretsDH(e, "DHPart1", "dh2")
    BY <1>2 DEF TakeDHPart1
  <2>2. /\ Moves(e, {}) /\ phase'[e] = "dh2" /\ role'[e] = "INITIATOR"
        /\ Greeted(e)'
        /\ s0'[e] = generate_shared_secrets(e, "INITIATOR", r_msg'[e])
        /\ r_msg'[e].dh = got[e]["DHPart1"].neg
    BY <1>0, <1>2, <2>1, GenerateMoves
  <2>3. Local(e)'
    <3>1. /\ Fixed /\ neg' = neg /\ got' = got
      BY <2>2 DEF Moves, Fixed
    <3>2. /\ Mode(e)' = "dh"
          /\ HasKeys(e, "INITIATOR")' /\ HasPart(e, "DHPart1")'
      BY <1>0, <1>2, <2>2, <3>1, SameDerivation
    <3> QED
      BY <2>2, <3>2 DEF Local, Derived
  <2>4. \A m \in Message : m.from = e /\ m.neg = neg[e] /\ Truth(m) => Truth(m)'
    BY <1>0, <2>2, CommitTruth
  <2>5. \A n \in Negotiation : Agreed(e, Peer(e), n)' /\ Agreed(Peer(e), e, n)'
    BY <1>0, <1>1, <2>2, AheadStays, CommitStays
  <2> QED
    BY <1>0, <2>2, <2>3, <2>4, <2>5, MoveKeeps
<1>3. CASE ~Stored(e, "DHPart1")
  <2>1. Crash(e) /\ CommitAnswered(e)
    BY <1>3 DEF TakeDHPart1
  <2>2. MixedAgain(neg[e])
    BY <1>0, <1>3, <2>1, AnswerIsRight
  <2> QED
    BY <1>0, <1>1, <2>1, <2>2, CrashKeeps
<1> QED
  BY <1>2, <1>3

LEMMA TakeDHPart2Keeps ==
  ASSUME Inv, NEW e \in Endpoint, TakeDHPart2(e)
  PROVE  Inv'
<1>0. /\ TypeInv /\ Local(e) /\ phase[e] = "dh1" /\ Mode(e) = "dh"
      /\ role[e] = "RESPONDER" /\ HasCommit(e)
  BY DEF Inv, TakeDHPart2, Local
<1>1. /\ Moves(e, {}) /\ phase'[e] = "conf1" /\ Greeted(e)' /\ HasCommit(e)'
      /\ s0'[e] = generate_shared_secrets(e, "RESPONDER", r_msg'[e])
      /\ r_msg'[e].dh = got[e]["DHPart2"].neg
  BY <1>0, GenerateMoves DEF TakeDHPart2
<1>2. Local(e)'
  <2>1. /\ Fixed /\ neg' = neg /\ got' = got
    BY <1>1 DEF Moves, Fixed
  <2>2. HasKeys(e, "RESPONDER")' /\ HasPart(e, "DHPart2")'
    BY <1>0, <1>1, <2>1, SameDerivation DEF TakeDHPart2
  <2> QED
    BY <1>1, <2>2 DEF Local
<1>3. ASSUME NEW m \in Message, m.from = e, m.neg = neg[e], Truth(m)
      PROVE  Truth(m)'
  <2>1. Current(m)
    BY <1>3 DEF Truth
  <2>2. are_we_initiator(e)' = are_we_initiator(e)
    BY <1>1 DEF Moves, are_we_initiator
  <2>3. m.type \notin {"DHPart2", "Confirm1", "Confirm2"}
    BY <1>0, <1>3, <2>1 DEF Current
  <2>4. Current(m)'
    BY <1>0, <1>1, <1>3, <2>1, <2>2, <2>3 DEF Current
  <2> QED
    BY <1>1, <1>3, <2>4, TruthAfter
<1>4. \A n \in Negotiation : Agreed(e, Peer(e), n)' /\ Agreed(Peer(e), e, n)'
  BY <1>0, <1>1, AheadStays, BehindStays
<1> QED
  BY <1>0, <1>1, <1>2, <1>3, <1>4, MoveKeeps

-----------------------------------------------------------------------------
(* initiator_finalize_session, responder_finalize_session *)

LEMMA TakeConfirm1MSMKeeps ==
  ASSUME Inv, NEW e \in Endpoint, TakeConfirm1MSM(e)
  PROVE  Inv'
<1> DEFINE f == Peer(e)
           keys == generate_shared_secrets(e, "INITIATOR", r_msg[e])
<1>0. /\ TypeInv /\ Local(e) /\ phase[e] = "commit" /\ Mode(e) = "msm"
      /\ CommitAnswered(e) /\ f \in Endpoint /\ neg[e] \in Negotiation
      /\ r_msg[e] \in RMsg
  BY Endpoints, NegIsNat DEF Inv, TakeConfirm1MSM, CommitAnswered, TypeInv
<1>1. CASE ~Stored(e, "Confirm1")
  <2>1. Crash(e)
    BY <1>1 DEF TakeConfirm1MSM
  <2>2. MixedAgain(neg[e])
    BY <1>0, <1>1, AnswerIsRight
  <2>3. ASSUME NEW n \in Negotiation, Completed(f, n), ~MixedAgain(n)
        PROVE  ~TooSoon(f, e, n)
    BY <1>0, <1>1, <2>3, TooSoonStores DEF CommitAnswered
  <2> QED
    BY <1>0, <2>1, <2>2, <2>3, CrashKeeps
<1>2. CASE Stored(e, "Confirm1")
  <2>1. keys \in Keys
    BY <1>0, SecretsAreKeys
  <2>2. /\ s0' = [s0 EXCEPT ![e] = keys]
        /\ Goto(e, IF Confirm1Valid(e) THEN "conf2" ELSE "failed")
        /\ UNCHANGED <<net, neg, got, role, r_msg, confirmKeys, results>>
        /\ Unchanged
    BY <1>2 DEF TakeConfirm1MSM
  <2>3. /\ phase' = [phase EXCEPT ![e] = phase'[e]]
        /\ phase'[e] \in {"conf2", "failed"}
        /\ tries' \in [Endpoint -> Nat]
    BY <1>0, <2>2, GotoGoes
  <2> HIDE DEF keys
  <2>4. s0'[e] = keys /\ s0' = [s0 EXCEPT ![e] = s0'[e]]
    BY <1>0, <2>2 DEF TypeInv
  <2>5. Moves(e, {})
    <3>1. MoveTypes(e)
      BY <1>0, <2>1, <2>2, <2>3, <2>4 DEF MoveTypes, TypeInv, Phases
    <3> QED
      BY <1>0, <2>2, <3>1, SilentMoves
  <2>6. Local(e)'
    <3>1. Fixed /\ neg' = neg /\ got' = got /\ r_msg' = r_msg
      BY <2>2, <2>5 DEF Moves, Fixed
    <3>2. HasKeys(e, "INITIATOR")' /\ HasPart(e, "DHPart1")'
      BY <1>0, <2>4, <3>1, SameDerivation DEF keys
    <3>3. Greeted(e)'
      BY <1>0, <3>1 DEF Local, Greeted, Stored
    <3> QED
      BY <2>3, <3>2, <3>3 DEF Local, Derived
  <2>7. \A m \in Message : m.from = e /\ m.neg = neg[e] /\ Truth(m) => Truth(m)'
    BY <1>0, <2>3, <2>5, CommitTruth
  <2>8. ASSUME NEW n \in Negotiation, TooSoon(f, e, n)
        PROVE  Behind(f, e, n)'
    <3>1. /\ neg[e] = n /\ r_msg[e].hello = n
          /\ results[f][n] = [initiator |-> e, hello |-> n, commit |-> n,
                              dh1 |-> 0, dh2 |-> 0]
      BY <1>0, <2>8 DEF TooSoon
    <3>2. keys = results[f][n]
      BY <1>0, <3>1 DEF keys, generate_shared_secrets
    <3>3. neg' = neg /\ results' = results
      BY <2>2
    <3> QED
      BY <2>3, <2>4, <3>1, <3>2, <3>3 DEF Behind
  <2>9. \A n \in Negotiation : Agreed(e, f, n)' /\ Agreed(f, e, n)'
    BY <1>0, <2>5, <2>8, AheadStays, CommitStays
  <2> QED
    BY <1>0, <2>3, <2>5, <2>6, <2>7, <2>9, MoveKeeps
<1> QED
  BY <1>1, <1>2

\* A move of e after it has committed: its secrets stay.
LEMMA LateMoves ==
  ASSUME Inv, NEW e \in Endpoint, NEW S,
         phase[e] \in {"dh1", "dh2", "conf1", "conf2"},
         Send(e, S),
         S \subseteq {"DHPart1", "DHPart2", "Confirm1", "Confirm2"},
         "DHPart1" \in S => phase[e] = "dh1",
         "DHPart2" \in S => phase[e] = "dh2",
         "Confirm1" \in S => phase[e] = "conf1",
         "Confirm2" \in S => phase[e] = "conf2",
         phase' = [phase EXCEPT ![e] = phase'[e]],
         phase'[e] \in {phase[e], "conf2", "failed"},
         phase'[e] = "conf2" => phase[e] \in {"dh2", "conf2"},
         tries' \in [Endpoint -> Nat],
         UNCHANGED <<neg, got, keyVars, results>>, Unchanged
  PROVE  Inv'
<1>0. TypeInv /\ Local(e)
  BY DEF Inv
<1>1. Moves(e, S)
  <2>1. phase'[e] \in {"dh1", "dh2", "conf1", "conf2", "failed"}
    OBVIOUS
  <2>2. MoveTypes(e)
    BY <1>0, <2>1 DEF MoveTypes, TypeInv, Phases, keyVars
  <2>3. S \subseteq MessageType
    BY DEF MessageType
  <2> QED
    BY <2>2, <2>3 DEF Moves, Unchanged, fixed
<1>2. r_msg' = r_msg /\ s0' = s0 /\ role' = role
  BY DEF keyVars
<1>3. Local(e)'
  <2>1. Fixed /\ neg' = neg /\ got' = got
    BY <1>1 DEF Moves, Fixed
  <2>2. /\ Mode(e)' = Mode(e)
        /\ \A r : HasKeys(e, r) => HasKeys(e, r)'
        /\ \A t : HasPart(e, t) => HasPart(e, t)'
    BY <1>2, <2>1, SameDerivation DEF HasKeys, HasPart
  <2>3. Greeted(e)' /\ (HasCommit(e) => HasCommit(e)')
    BY <1>0, <1>2, <2>1 DEF Local, Greeted, HasCommit, Stored
  <2>4. CASE phase'[e] = "failed"
    BY <2>4 DEF Local
  <2>5. CASE phase'[e] = phase[e]
    BY <1>0, <1>2, <2>2, <2>3, <2>5 DEF Local, Derived
  <2>6. CASE phase'[e] = "conf2"
    BY <1>0, <1>2, <2>2, <2>3, <2>6 DEF Local, Derived
  <2> QED
    BY <2>4, <2>5, <2>6
<1>4. \A m \in Message :
        /\ m.from = e /\ m.neg = neg[e]
        /\ (Around(m) /\ Truth(m)) \/ (m.type \in S /\ m = Msg(e, m.type))
        => Truth(m)'
  BY <1>1, <1>2, LateTruth
<1>5. \A n \in Negotiation : Agreed(e, Peer(e), n)'
  BY <1>1, AheadStays
<1>6. \A n \in Negotiation : Agreed(Peer(e), e, n)'
  BY <1>1, <1>2, BehindStays
<1>7. phase[e] = "conf2" => S \subseteq {"Confirm2"}
  OBVIOUS
<1>8. phase'[e] # "crashed"
  OBVIOUS
<1> QED
  BY <1>1, <1>3, <1>4, <1>5, <1>6, <1>7, <1>8, MoveKeeps

LEMMA LateKeeps ==
  ASSUME Inv, NEW e \in Endpoint,
         \/ SendDHPart1(e) \/ SendDHPart2(e) \/ SendConfirm1(e)
         \/ SendConfirm2(e) \/ TakeConfirm1(e)
  PROVE  Inv'
<1>0. TypeInv
  BY DEF Inv
<1>1. CASE SendDHPart1(e)
  BY <1>0, <1>1, ResendCounts, LateMoves DEF SendDHPart1
<1>2. CASE SendDHPart2(e)
  BY <1>0, <1>2, ResendCounts, LateMoves DEF SendDHPart2
<1>3. CASE SendConfirm1(e)
  BY <1>0, <1>3, ResendCounts, LateMoves DEF SendConfirm1
<1>4. CASE SendConfirm2(e)
  BY <1>0, <1>4, ResendCounts, LateMoves DEF SendConfirm2
<1>5. CASE TakeConfirm1(e)
  <2>1. Send(e, {})
    BY <1>5 DEF TakeConfirm1, Send
  <2>2. /\ phase' = [phase EXCEPT ![e] = phase'[e]]
        /\ phase'[e] \in {"conf2", "failed"}
        /\ tries' \in [Endpoint -> Nat]
    BY <1>0, <1>5, GotoGoes DEF TakeConfirm1
  <2> QED
    BY <1>0, <1>5, <2>1, <2>2, LateMoves DEF TakeConfirm1
<1> QED
  BY <1>1, <1>2, <1>3, <1>4, <1>5

-----------------------------------------------------------------------------
(* The network *)

\* A message is lost, refused, or taken by the packet handler.
LEMMA ArriveKeeps ==
  ASSUME Inv, TypeInv', Fixed, UNCHANGED <<phase, neg, keyVars, results>>,
         net' \subseteq net,
         \A m \in Message : Around(m)' => Around(m),
         \A e \in Endpoint : \A t \in MessageType :
           Stored(e, t) => Stored(e, t)' /\ got'[e][t] = got[e][t],
         \A e \in Endpoint : mixed[e] \subseteq mixed'[e],
         \A e \in Endpoint : \A t \in MessageType : FreshStore(e, t)'
  PROVE  Inv'
<1>0. /\ TypeInv /\ r_msg' = r_msg /\ s0' = s0 /\ role' = role
      /\ neg' = neg /\ results' = results /\ phase' = phase
      /\ Modes' = Modes /\ Negotiation' = Negotiation /\ Message' = Message
      /\ larger' = larger
  BY FixedOnes DEF Inv, keyVars, Fixed
<1>1. \A n : (Mixed(n) => Mixed(n)') /\ (MixedAgain(n) => MixedAgain(n)')
  <2>1. \A n : Mixed(n) => Mixed(n)'
    BY DEF Mixed, Endpoint
  <2> QED
    BY <2>1 DEF MixedAgain
<1>2. \A e \in Endpoint : Local(e)'
  BY <1>0, LocalStays DEF Inv
<1>3. Truthful'
  BY <1>0, TruthStays, MessageFields DEF Inv, Truthful
<1>4. Fresh'
  <2>1. \A m \in net' : FreshMessage(m)'
    BY <1>0, <1>1 DEF Inv, Fresh, FreshMessage
  <2> QED
    BY <2>1 DEF Fresh
<1>5. AllAgreed'
  <2> SUFFICES ASSUME NEW e \in Endpoint, NEW n \in Negotiation
               PROVE  Agreed(e, Peer(e), n)'
    BY <1>0 DEF AllAgreed
  <2>0. Agreed(e, Peer(e), n)
    BY DEF Inv, AllAgreed
  <2>1. \A g : Completed(g, n)' = Completed(g, n)
    BY <1>0 DEF Completed
  <2>2. n \in mixed[e] => n \in mixed'[e]
    OBVIOUS
  <2>3. Behind(e, Peer(e), n) => Behind(e, Peer(e), n)'
    BY <1>0, <2>2 DEF Behind
  <2>4. TooSoon(e, Peer(e), n) => TooSoon(e, Peer(e), n)'
    BY <1>0, <2>2 DEF TooSoon
  <2> QED
    BY <1>0, <1>1, <2>0, <2>1, <2>3, <2>4 DEF Agreed
<1>6. NeverCrashes'
  BY <1>0, <1>1 DEF Inv, NeverCrashes
<1> QED
  BY <1>2, <1>3, <1>4, <1>5, <1>6 DEF Inv

LEMMA ReceiveKeeps ==
  ASSUME Inv, NEW m \in net, Receive(m)
  PROVE  Inv'
<1> DEFINE e == Peer(m.from)
           t == m.type
<1>0. /\ TypeInv /\ m \in Message /\ e \in Endpoint /\ t \in MessageType
      /\ m.from \in Endpoint /\ Peer(e) = m.from /\ m # NoMsg
      /\ m.neg \in Negotiation /\ neg[e] \in Nat
      /\ got \in [Endpoint -> [MessageType -> Message \cup {NoMsg}]]
      /\ mixed \in [Endpoint -> SUBSET Negotiation]
  BY MessageFields, Endpoints, NegIsNat DEF Inv, TypeInv
<1>1. /\ net' = net \ {m}
      /\ got' = IF Stored(e, t) THEN got ELSE [got EXCEPT ![e][t] = m]
      /\ mixed' = IF ~Stored(e, t) /\ m.neg < neg[e]
                  THEN [mixed EXCEPT ![e] = @ \cup {neg[e]}] ELSE mixed
      /\ UNCHANGED <<losses, fixed, phase, neg, tries, keyVars, results,
                     ackLost>>
  BY DEF Receive
<1>2. Fixed
  BY <1>1 DEF Fixed, fixed
<1>3. \A g \in Endpoint : \A u \in MessageType :
        \/ got'[g][u] = got[g][u]
        \/ g = e /\ u = t /\ ~Stored(e, t) /\ got'[g][u] = m
  BY <1>0, <1>1
<1>4. \A g \in Endpoint : mixed[g] \subseteq mixed'[g]
  BY <1>0, <1>1
<1>5. ~Stored(e, t) /\ m.neg < neg[e] => neg[e] \in mixed'[e]
  BY <1>0, <1>1
<1>6. TypeInv'
  <2>1. /\ Modes' = Modes /\ Negotiation' = Negotiation
        /\ Keys' = Keys /\ RMsg' = RMsg /\ Message' = Message
    BY <1>2, FixedOnes
  <2>2. got' \in [Endpoint -> [MessageType -> Message \cup {NoMsg}]]
    BY <1>0, <1>1
  <2>3. mixed' \in [Endpoint -> SUBSET Negotiation]
    <3>1. m.neg < neg[e] => neg[e] \in Negotiation
      BY <1>0, ModesAreKnown DEF TypeInv, Negotiation
    <3> QED
      BY <1>0, <1>1, <3>1
  <2>4. \A g \in Endpoint : \A u \in MessageType : StoredRight(g, u)'
    <3> SUFFICES ASSUME NEW g \in Endpoint, NEW u \in MessageType
                 PROVE  StoredRight(g, u)'
      OBVIOUS
    <3>1. CASE got'[g][u] = got[g][u]
      <4>1. StoredRight(g, u)
        BY <1>0 DEF TypeInv
      <4> QED
        BY <2>1, <3>1, <4>1 DEF StoredRight, Stored
    <3>2. CASE g = e /\ u = t /\ got'[g][u] = m
      BY <1>0, <2>1, <3>2 DEF StoredRight
    <3> QED
      BY <1>3, <3>1, <3>2
  <2>5. \A g \in Endpoint : ResultsMatch(g)'
    BY <1>0, <1>1 DEF TypeInv, ResultsMatch
  <2>6. /\ net' \subseteq Message /\ scenario' \in Scenarios
        /\ larger' \in [Negotiation -> Endpoint]
        /\ phase' \in [Endpoint -> Phases]
        /\ neg' \in [Endpoint -> 0 .. Len(Modes)]
        /\ tries' \in [Endpoint -> Nat]
        /\ role' \in [Endpoint -> Roles]
        /\ r_msg' \in [Endpoint -> RMsg]
        /\ s0' \in [Endpoint -> Keys]
        /\ confirmKeys' \in [Endpoint -> Keys]
        /\ results' \in [Endpoint -> Seq(Keys)]
        /\ ackLost' \in BOOLEAN
    BY <1>0, <1>1 DEF TypeInv, keyVars, fixed
  <2> QED
    BY <2>1, <2>2, <2>3, <2>4, <2>5, <2>6 DEF TypeInv
<1>7. \A x \in Message : Around(x)' => Around(x)
  <2> SUFFICES ASSUME NEW x \in Message, Around(x)' PROVE Around(x)
    OBVIOUS
  <2>1. Peer(x.from) \in Endpoint /\ x.type \in MessageType
    BY <1>0, MessageFields, Endpoints
  <2>2. CASE x \in net'
    BY <1>1, <2>2 DEF Around
  <2>3. CASE got'[Peer(x.from)][x.type] = x
    BY <1>3, <2>1, <2>3 DEF Around
  <2> QED
    BY <2>2, <2>3 DEF Around
<1>8. \A g \in Endpoint : \A u \in MessageType :
        Stored(g, u) => Stored(g, u)' /\ got'[g][u] = got[g][u]
  BY <1>3 DEF Stored
<1>9. ASSUME NEW g \in Endpoint, NEW u \in MessageType
      PROVE  FreshStore(g, u)'
  <2>1. neg' = neg
    BY <1>1
  <2>2. \A n : (Mixed(n) => Mixed(n)') /\ (MixedAgain(n) => MixedAgain(n)')
    BY <1>4 DEF Mixed, MixedAgain, Endpoint
  <2>3. CASE got'[g][u] = got[g][u]
    <3>1. FreshStore(g, u)
      BY DEF Inv, Fresh
    <3> QED
      BY <1>4, <2>1, <2>2, <2>3, <3>1 DEF FreshStore, Stored
  <2>4. CASE g = e /\ u = t /\ ~Stored(e, t) /\ got'[g][u] = m
    <3> SUFFICES ASSUME m.neg < neg[e]
                 PROVE  /\ neg[e] \in mixed'[e]
                        /\ t = "Confirm2" \/ MixedAgain(neg[e])'
      BY <2>1, <2>4 DEF FreshStore
    <3>1. neg[e] \in mixed'[e]
      BY <1>5, <2>4
    <3>2. Mixed(neg[e])'
      <4>1. e = 1 \/ e = 2
        BY <1>0 DEF Endpoint
      <4> QED
        BY <2>1, <3>1, <4>1 DEF Mixed
    <3>3. t = "Confirm2" \/ Mixed(neg[e] - 1)
      BY DEF Inv, Fresh, FreshMessage
    <3> QED
      BY <2>1, <2>2, <3>1, <3>2, <3>3 DEF MixedAgain
  <2> QED
    BY <1>3, <2>3, <2>4
<1>10. UNCHANGED <<phase, neg, keyVars, results>> /\ net' \subseteq net
  BY <1>1
<1> QED
  BY <1>2, <1>4, <1>6, <1>7, <1>8, <1>9, <1>10, ArriveKeeps

LEMMA DropKeeps ==
  ASSUME Inv, NEW m \in net, Refuse(m) \/ Lose(m)
  PROVE  Inv'
<1>0. /\ TypeInv
      /\ net' = net \ {m}
      /\ UNCHANGED <<fixed, phase, neg, tries, got, keyVars, results, mixed>>
      /\ ackLost' \in BOOLEAN
  BY DEF Inv, TypeInv, Refuse, Lose
<1>1. Fixed
  BY <1>0 DEF Fixed, fixed
<1>2. /\ Modes' = Modes /\ Negotiation' = Negotiation
      /\ Keys' = Keys /\ RMsg' = RMsg /\ Message' = Message
  BY <1>1, FixedOnes
<1>3. TypeInv'
  <2>1. \A g \in Endpoint : \A u \in MessageType : StoredRight(g, u)'
    BY <1>0, <1>2 DEF TypeInv, StoredRight, Stored
  <2>2. \A g \in Endpoint : ResultsMatch(g)'
    BY <1>0 DEF TypeInv, ResultsMatch
  <2>3. net' \subseteq Message
    BY <1>0 DEF TypeInv
  <2> QED
    BY <1>0, <1>2, <2>1, <2>2, <2>3 DEF TypeInv, keyVars, fixed
<1>4. \A x \in Message : Around(x)' => Around(x)
  BY <1>0 DEF Around
<1>5. \A g \in Endpoint : \A u \in MessageType : FreshStore(g, u)'
  <2>1. \A n : MixedAgain(n)' = MixedAgain(n)
    BY <1>0 DEF Mixed, MixedAgain
  <2> QED
    BY <1>0, <2>1 DEF Inv, Fresh, FreshStore, Stored
<1>6. \A g \in Endpoint : \A u \in MessageType :
        Stored(g, u) => Stored(g, u)' /\ got'[g][u] = got[g][u]
  BY <1>0 DEF Stored
<1> QED
  BY <1>0, <1>1, <1>3, <1>4, <1>5, <1>6, ArriveKeeps

-----------------------------------------------------------------------------
(* The next negotiation *)

LEMMA StartKeeps ==
  ASSUME Inv, NEW e \in Endpoint, init(e)
  PROVE  Inv'
<1> DEFINE f == Peer(e)
           k == neg[e] + 1
<1>0. /\ TypeInv /\ f \in Endpoint /\ f # e /\ Peer(f) = e
      /\ \A g \in Endpoint : g # e => g = f
      /\ neg[e] \in Nat /\ Len(Modes) \in Nat /\ neg[f] \in Nat
      /\ neg \in [Endpoint -> 0 .. Len(Modes)]
      /\ got \in [Endpoint -> [MessageType -> Message \cup {NoMsg}]]
      /\ phase[e] = "idle"
  BY Endpoints, NegIsNat, ModesAreKnown DEF Inv, TypeInv, init
<1>1. /\ neg[e] < Len(Modes)
      /\ neg' = [neg EXCEPT ![e] = k]
      /\ got' = [got EXCEPT ![e] = NothingStored]
      /\ net' = {m \in net : m.from = e}
      /\ Goto(e, "hello")
      /\ UNCHANGED <<keyVars, results>>
      /\ UNCHANGED <<losses, ackLost, mixed, fixed>>
  BY DEF init, resetSession, Unchanged
<1>2. Fixed
  BY <1>1 DEF Fixed, fixed
<1>3. /\ Modes' = Modes /\ Negotiation' = Negotiation
      /\ Keys' = Keys /\ RMsg' = RMsg /\ Message' = Message
      /\ larger' = larger
  BY <1>2, FixedOnes DEF Fixed
<1>4. /\ phase' = [phase EXCEPT ![e] = phase'[e]] /\ phase'[e] = "hello"
      /\ tries' \in [Endpoint -> Nat]
      /\ phase \in [Endpoint -> Phases]
  BY <1>0, <1>1, GotoGoes DEF TypeInv
<1>5. /\ neg'[e] = k /\ neg'[f] = neg[f]
      /\ got'[f] = got[f] /\ phase'[f] = phase[f]
      /\ \A t \in MessageType : got'[e][t] = NoMsg
      /\ r_msg' = r_msg /\ s0' = s0 /\ role' = role /\ results' = results
      /\ mixed' = mixed
  BY <1>0, <1>1, <1>4 DEF NothingStored, keyVars
<1>6. TypeInv'
  <2>1. neg' \in [Endpoint -> 0 .. Len(Modes)]
    BY <1>0, <1>1
  <2>2. got' \in [Endpoint -> [MessageType -> Message \cup {NoMsg}]]
    BY <1>0, <1>1 DEF NothingStored
  <2>3. \A g \in Endpoint : \A u \in MessageType : StoredRight(g, u)'
    <3> SUFFICES ASSUME NEW g \in Endpoint, NEW u \in MessageType
                 PROVE  StoredRight(g, u)'
      OBVIOUS
    <3>1. CASE g = e
      BY <1>5, <3>1 DEF StoredRight, Stored
    <3>2. CASE g = f
      <4>1. StoredRight(f, u)
        BY <1>0 DEF TypeInv
      <4> QED
        BY <1>3, <1>5, <3>2, <4>1 DEF StoredRight, Stored
    <3> QED
      BY <1>0, <3>1, <3>2
  <2>4. \A g \in Endpoint : ResultsMatch(g)'
    <3>1. ResultsMatch(e)'
      BY <1>0, <1>4, <1>5 DEF TypeInv, ResultsMatch
    <3>2. ResultsMatch(f)'
      <4>1. ResultsMatch(f)
        BY <1>0 DEF TypeInv
      <4> QED
        BY <1>5, <4>1 DEF ResultsMatch
    <3> QED
      BY <1>0, <3>1, <3>2
  <2>5. phase' \in [Endpoint -> Phases]
    BY <1>4 DEF Phases
  <2>6. /\ net' \subseteq Message /\ scenario' \in Scenarios
        /\ larger' \in [Negotiation -> Endpoint]
        /\ role' \in [Endpoint -> Roles]
        /\ r_msg' \in [Endpoint -> RMsg]
        /\ s0' \in [Endpoint -> Keys]
        /\ confirmKeys' \in [Endpoint -> Keys]
        /\ results' \in [Endpoint -> Seq(Keys)]
        /\ ackLost' \in BOOLEAN
        /\ mixed' \in [Endpoint -> SUBSET Negotiation]
    BY <1>0, <1>1 DEF TypeInv, keyVars, fixed
  <2> QED
    BY <1>3, <1>4, <2>1, <2>2, <2>3, <2>4, <2>5, <2>6 DEF TypeInv
<1>7. \A m \in Message : Around(m)' => Around(m) /\ m.from # f
  <2> SUFFICES ASSUME NEW m \in Message, Around(m)'
               PROVE  Around(m) /\ m.from # f
    OBVIOUS
  <2>1. m.from \in Endpoint /\ m.type \in MessageType /\ m # NoMsg
    BY <1>0, MessageFields
  <2>2. CASE m \in net'
    BY <1>0, <1>1, <2>2 DEF Around
  <2>3. CASE got'[Peer(m.from)][m.type] = m
    <3>1. Peer(m.from) # e
      BY <1>5, <2>1, <2>3
    <3>2. m.from = e
      BY <1>0, <2>1, <3>1
    <3> QED
      BY <1>0, <1>5, <2>3, <3>2 DEF Around
  <2> QED
    BY <2>2, <2>3 DEF Around
<1>8. \A g \in Endpoint : Local(g)'
  <2>1. Local(e)'
    BY <1>4 DEF Local
  <2>2. Local(f)'
    BY <1>0, <1>2, <1>5, LocalStays DEF Inv, Stored
  <2> QED
    BY <1>0, <2>1, <2>2
<1>9. Truthful'
  <2> SUFFICES ASSUME NEW m \in Message, Around(m)' PROVE Truth(m)'
    BY <1>3 DEF Truthful
  <2>1. m.from = e /\ Truth(m) /\ m.neg \in Nat
    BY <1>0, <1>7, MessageFields DEF Inv, Truthful
  <2> QED
    BY <1>0, <1>3, <1>5, <2>1 DEF Truth, Completed
<1>10. Fresh'
  <2>1. \A t \in MessageType : FreshStore(e, t)'
    BY <1>5 DEF FreshStore, Stored
  <2>2. \A t \in MessageType : FreshStore(f, t)'
    BY <1>0, <1>5 DEF Inv, Fresh, FreshStore, Stored, Mixed, MixedAgain
  <2>3. ASSUME NEW m \in net' PROVE FreshMessage(m)'
    <3>1. m \in net /\ m.from = e /\ FreshMessage(m)
      BY <1>1 DEF Inv, Fresh
    <3> QED
      BY <1>5, <3>1 DEF FreshMessage, Mixed
  <2> QED
    BY <1>0, <2>1, <2>2, <2>3 DEF Fresh
<1>11. AllAgreed'
  <2> SUFFICES ASSUME NEW n \in Negotiation
               PROVE  Agreed(e, f, n)' /\ Agreed(f, e, n)'
    BY <1>0, <1>3 DEF AllAgreed
  <2>0. /\ Agreed(e, f, n) /\ Agreed(f, e, n)
        /\ MixedAgain(n)' = MixedAgain(n)
        /\ \A g : Completed(g, n)' = Completed(g, n)
    BY <1>0, <1>5 DEF Inv, AllAgreed, MixedAgain, Mixed, Completed
  <2>1. Agreed(f, e, n)'
    BY <1>0, <1>5, <2>0 DEF Agreed, Behind, TooSoon
  <2>2. Behind(e, f, n) => Behind(e, f, n)'
    BY <1>5 DEF Behind
  <2>3. ASSUME TooSoon(e, f, n) PROVE TooSoon(e, f, n)'
    <3>1. neg[e] = n
      BY <1>0, <2>3 DEF TooSoon
    <3>2. \A m \in Message : Around(m)' /\ m.from = f => m.type # "HelloACK"
      BY <1>7
    <3>3. neg'[e] = n + 1 /\ phase'[e] = "hello"
      BY <1>4, <1>5, <3>1
    <3> QED
      BY <1>3, <1>5, <1>7, <2>3, <3>2, <3>3 DEF TooSoon
  <2> QED
    BY <1>5, <2>0, <2>1, <2>2, <2>3 DEF Agreed
<1>12. NeverCrashes'
  BY <1>0, <1>4, <1>5 DEF Inv, NeverCrashes, MixedAgain, Mixed
<1> QED
  BY <1>6, <1>8, <1>9, <1>10, <1>11, <1>12 DEF Inv

-----------------------------------------------------------------------------
(* The end of a negotiation *)

\* What e's messages say if it waits for the Confirm2 as a responder.
LEMMA ResponderSent ==
  ASSUME Inv, NEW e \in Endpoint, phase[e] = "conf1", Mode(e) = "msm",
         NEW m \in Message, Around(m), m.from = e, neg[e] <= m.neg
  PROVE  \/ m.type \in {"Hello", "HelloACK", "Confirm1", "Conf2ACK"}
         \/ m.type = "Commit" /\ m.neg = neg[e] /\ larger[neg[e]] = Peer(e)
<1>1. TypeInv /\ Truth(m) /\ m.neg \in Nat /\ neg[e] \in Nat
      /\ m.type \in MessageType /\ neg[e] \in Negotiation
  BY MessageFields, NegIsNat DEF Inv, Truthful
<1>2. m.neg = neg[e] /\ Current(m)
  BY <1>1 DEF Truth
<1>3. m.type \notin {"DHPart2", "Confirm2"}
  BY <1>2 DEF Current
<1>4. m.type # "DHPart1"
  BY <1>1, <1>2 DEF Truth, Mode
<1>5. m.type = "Commit" => larger[neg[e]] = Peer(e)
  <2>1. larger[neg[e]] \in Endpoint
    BY <1>1 DEF TypeInv
  <2>2. m.type = "Commit" => larger[neg[e]] # e
    BY <1>2 DEF Current, are_we_initiator
  <2> QED
    BY <2>1, <2>2, Endpoints
<1> QED
  BY <1>1, <1>2, <1>3, <1>4, <1>5 DEF MessageType

\* Where the peer of a responder is that has a Confirm2.
LEMMA WhereInitiatorIs ==
  ASSUME Inv, NEW e \in Endpoint, phase[e] = "conf1", Stored(e, "Confirm2"),
         ~MixedAgain(neg[e])
  PROVE  /\ ~Completed(Peer(e), neg[e])
         /\ neg[Peer(e)] = neg[e]
         /\ phase[Peer(e)] \in {"commit", "dh2", "conf2", "failed"}
         /\ neg[e] \notin mixed[e] =>
              phase[Peer(e)] \in {"conf2", "failed"} /\ Derived(Peer(e))
         /\ Stored(e, "Commit") /\ r_msg[e].commit = neg[e]
         /\ Mode(e) = "dh" =>
              /\ r_msg[e].dh = neg[e]
              /\ phase[Peer(e)] # "commit" /\ Derived(Peer(e))
<1> DEFINE f == Peer(e)
           k == neg[e]
<1>0. /\ TypeInv /\ Truthful /\ Local(e) /\ Local(f)
      /\ f \in Endpoint /\ f # e /\ Peer(f) = e
      /\ k \in Negotiation /\ k \in Nat \ {0} /\ neg[f] \in Nat
      /\ larger \in [Negotiation -> Endpoint] /\ phase[f] \in Phases
      /\ {"Commit", "Confirm2", "DHPart2"} \subseteq MessageType
  <2>1. /\ TypeInv /\ Truthful /\ Local(e)
        /\ f \in Endpoint /\ f # e /\ Peer(f) = e
    BY Endpoints DEF Inv
  <2>2. k \in Negotiation /\ neg[f] \in Nat /\ Local(f)
    BY <2>1, NegIsNat DEF Inv
  <2>3. k \in Nat \ {0}
    BY <2>1, <2>2, ModesAreKnown DEF Negotiation
  <2>4. larger \in [Negotiation -> Endpoint] /\ phase[f] \in Phases
    BY <2>1 DEF TypeInv
  <2> QED
    BY <2>1, <2>2, <2>3, <2>4 DEF MessageType
<1>1. ~Completed(e, k)
  BY <1>0, CompletedOnes
<1>2. ~Completed(f, k)
  <2>1. Agreed(f, e, k)
    BY <1>0 DEF Inv, AllAgreed
  <2> QED
    BY <1>0, <1>1, <2>1 DEF Agreed, Behind, TooSoon
<1>3. HasCommit(e)
  BY <1>0 DEF Local
<1>4. neg[f] = k
  <2>1. Stored(e, "Commit")
    BY <1>3 DEF HasCommit
  <2>2. k <= neg[f]
    <3>1. k <= got[e]["Commit"].neg /\ got[e]["Commit"].neg <= neg[f]
      BY <1>0, <2>1, StoredIsFresh
    <3>2. got[e]["Commit"].neg \in Nat
      BY <1>0, <2>1, StoredIsAround, MessageFields
    <3> QED
      BY <1>0, <3>1, <3>2
  <2>3. ~(k < neg[f])
    BY <1>0, <1>2, CompletedOnes
  <2> QED
    BY <1>0, <2>2, <2>3
<1>5. ASSUME NEW g \in {e, f}, NEW t \in {"Commit", "DHPart2", "Confirm2"},
             Stored(g, t), t # "Confirm2" \/ neg[g] \notin mixed[g]
      PROVE  /\ got[g][t].neg = k
             /\ got[g][t].from = Peer(g) /\ got[g][t].type = t
             /\ Current(got[g][t])
  <2>1. g \in Endpoint /\ t \in MessageType /\ neg[g] = k /\ neg[Peer(g)] = k
    BY <1>0, <1>4
  <2>2. got[g][t].neg = k
    BY <1>0, <1>5, <2>1, StoredIsFresh
  <2>3. got[g][t].from = Peer(g) /\ got[g][t].type = t /\ Truth(got[g][t])
    BY <1>0, <1>5, <2>1, StoredIsAround DEF Truthful
  <2> QED
    BY <2>1, <2>2, <2>3 DEF Truth
<1>6. /\ got[e]["Commit"].neg = k
      /\ phase[f] \notin {"hello", "agree"}
      /\ phase[f] \in {"dh1", "conf1"} => larger[k] # f
  <2>1. Stored(e, "Commit")
    BY <1>3 DEF HasCommit
  <2>2. /\ got[e]["Commit"].neg = k
        /\ got[e]["Commit"].from = f /\ got[e]["Commit"].type = "Commit"
        /\ Current(got[e]["Commit"])
    BY <1>5, <2>1
  <2> QED
    BY <1>4, <2>2 DEF Current, are_we_initiator
<1>7. phase[f] \notin {"dh1", "conf1"}
  <2> SUFFICES ASSUME phase[f] \in {"dh1", "conf1"} PROVE FALSE
    OBVIOUS
  <2>1. Stored(f, "Commit")
    BY <1>0 DEF Local, HasCommit
  <2>2. /\ got[f]["Commit"].from = e /\ got[f]["Commit"].type = "Commit"
        /\ Current(got[f]["Commit"])
    BY <1>0, <1>5, <2>1
  <2>3. larger[k] # e
    BY <2>2 DEF Current, are_we_initiator
  <2> QED
    BY <1>0, <1>6, <2>3, Endpoints
<1>8. phase[f] \notin {"idle", "crashed"}
  <2>1. phase[f] # "idle"
    BY <1>0, <1>2, <1>4, CompletedOnes
  <2>2. phase[f] # "crashed"
    BY <1>0, <1>4 DEF Inv, NeverCrashes
  <2> QED
    BY <2>1, <2>2
<1>9. phase[f] \in {"commit", "dh2", "conf2", "failed"}
  BY <1>0, <1>6, <1>7, <1>8 DEF Phases
<1>10. ASSUME k \notin mixed[e]
       PROVE  phase[f] \in {"conf2", "failed"} /\ Derived(f)
  <2>1. /\ got[e]["Confirm2"].from = f /\ got[e]["Confirm2"].type = "Confirm2"
        /\ Current(got[e]["Confirm2"])
    BY <1>5, <1>10
  <2> QED
    BY <1>8, <2>1 DEF Current
<1>11. ASSUME Mode(e) = "dh"
       PROVE  r_msg[e].dh = k /\ phase[f] # "commit" /\ Derived(f)
  <2>1. Stored(e, "DHPart2") /\ r_msg[e].dh = got[e]["DHPart2"].neg
    BY <1>0, <1>11 DEF Local, HasPart
  <2>2. /\ got[e]["DHPart2"].neg = k
        /\ got[e]["DHPart2"].from = f /\ got[e]["DHPart2"].type = "DHPart2"
        /\ Current(got[e]["DHPart2"])
    BY <1>5, <2>1
  <2> QED
    BY <2>1, <2>2 DEF Current
<1> QED
  BY <1>2, <1>3, <1>4, <1>6, <1>9, <1>10, <1>11 DEF HasCommit

\* Where e is when it has completed n with the keys that it has now.
DoneFor(e, f) ==
  \/ Completed(f, neg[e]) /\ results[f][neg[e]] = s0[e]
  \/ /\ s0[e].initiator = f
     /\ ~Completed(f, neg[e])
     /\ neg[f] = neg[e]
     /\ \/ /\ \/ phase[f] \in {"conf2", "failed"}
              \/ phase[f] = "dh2" /\ neg[e] \in mixed[e]
           /\ s0[f] = s0[e]
        \/ /\ neg[e] \in mixed[e]
           /\ Mode(e) = "msm"
           /\ \/ phase[f] = "failed"
              \/ phase[f] = "commit" /\ r_msg[f].hello = neg[e]
           /\ s0[e] = [initiator |-> f, hello |-> neg[e], commit |-> neg[e],
                       dh1 |-> 0, dh2 |-> 0]
           /\ \A m \in Message : Around(m) /\ m.from = e /\ neg[e] <= m.neg =>
                \/ m.type \in {"Hello", "HelloACK", "Confirm1", "Conf2ACK"}
                \/ m.type = "Commit" /\ m.neg = neg[e] /\ larger[neg[e]] = f

\* The keys of a responder that has a Confirm2 are those of the initiator.
LEMMA ResponderIsDone ==
  ASSUME Inv, NEW e \in Endpoint, phase[e] = "conf1", Stored(e, "Confirm2"),
         ~MixedAgain(neg[e])
  PROVE  DoneFor(e, Peer(e))
<1> DEFINE f == Peer(e)
           k == neg[e]
<1>0. /\ TypeInv /\ Local(e) /\ Local(f) /\ f \in Endpoint /\ f # e
      /\ Peer(f) = e /\ {"Hello", "DHPart1"} \subseteq MessageType
      /\ k \in Negotiation
  BY Endpoints, NegIsNat DEF Inv, MessageType
<1>1. /\ ~Completed(f, k) /\ neg[f] = k
      /\ phase[f] \in {"commit", "dh2", "conf2", "failed"}
      /\ k \notin mixed[e] => phase[f] \in {"conf2", "failed"} /\ Derived(f)
      /\ r_msg[e].commit = k
      /\ Mode(e) = "dh" => /\ r_msg[e].dh = k
                           /\ phase[f] # "commit" /\ Derived(f)
  BY WhereInitiatorIs
<1>2. s0[e] = generate_shared_secrets(e, "RESPONDER", r_msg[e])
  BY <1>0 DEF Local, HasKeys
<1>3. s0[e] = [initiator |-> f, hello |-> k, commit |-> k,
               dh1 |-> IF Mode(e) = "dh" THEN k ELSE 0,
               dh2 |-> IF Mode(e) = "dh" THEN k ELSE 0]
  BY <1>1, <1>2 DEF generate_shared_secrets
<1>4. ~MixedAgain(neg[f]) /\ Mode(f) = Mode(e)
  BY <1>1 DEF Mode
<1>5. Greeted(f) => r_msg[f].hello = k
  BY <1>0, <1>1, <1>4, StoredIsFresh DEF Greeted
<1>6. Derived(f) => s0[f] = s0[e]
  <2> SUFFICES ASSUME Derived(f) PROVE s0[f] = s0[e]
    OBVIOUS
  <2>1. s0[f] = generate_shared_secrets(f, "INITIATOR", r_msg[f])
    BY DEF Derived, HasKeys
  <2>2. r_msg[f].hello = k
    BY <1>5 DEF Derived
  <2>3. Mode(e) = "dh" => r_msg[f].dh = k
    <3> SUFFICES ASSUME Mode(e) = "dh" PROVE r_msg[f].dh = k
      OBVIOUS
    <3>1. Stored(f, "DHPart1") /\ r_msg[f].dh = got[f]["DHPart1"].neg
      BY <1>4 DEF Derived, HasPart
    <3> QED
      BY <1>0, <1>1, <1>4, <3>1, StoredIsFresh
  <2> QED
    BY <1>1, <1>3, <1>4, <2>1, <2>2, <2>3 DEF generate_shared_secrets
<1>7. CASE Mode(e) = "dh"
  BY <1>1, <1>3, <1>6, <1>7 DEF DoneFor
<1>8. CASE Mode(e) # "dh" /\ k \notin mixed[e]
  BY <1>1, <1>3, <1>6, <1>8 DEF DoneFor
<1>9. CASE Mode(e) # "dh" /\ k \in mixed[e] /\ phase[f] = "conf2"
  BY <1>0, <1>1, <1>3, <1>6, <1>9 DEF DoneFor, Local
<1>10. CASE Mode(e) # "dh" /\ k \in mixed[e] /\ phase[f] # "conf2"
  <2>1. Mode(e) = "msm"
    BY <1>0, <1>10, ModesAreKnown DEF Mode
  <2>2. phase[f] # "dh2"
    BY <1>0, <1>4, <1>10 DEF Local
  <2>3. phase[f] = "commit" => r_msg[f].hello = k
    BY <1>0, <1>5 DEF Local
  <2>4. \A m \in Message : Around(m) /\ m.from = e /\ k <= m.neg =>
                \/ m.type \in {"Hello", "HelloACK", "Confirm1", "Conf2ACK"}
                \/ m.type = "Commit" /\ m.neg = k /\ larger[k] = f
    BY <2>1, ResponderSent
  <2>5. s0[e] = [initiator |-> f, hello |-> k, commit |-> k,
                 dh1 |-> 0, dh2 |-> 0]
    BY <1>3, <1>10
  <2> QED
    BY <1>1, <1>3, <1>10, <2>1, <2>2, <2>3, <2>4, <2>5 DEF DoneFor
<1> QED
  BY <1>7, <1>8, <1>9, <1>10

\* An initiator that has the Conf2ACK has the keys of its responder.
LEMMA InitiatorIsDone ==
  ASSUME Inv, NEW e \in Endpoint, phase[e] = "conf2", Stored(e, "Conf2ACK"),
         ~MixedAgain(neg[e])
  PROVE  DoneFor(e, Peer(e))
<1> DEFINE f == Peer(e)
           k == neg[e]
           m == got[e]["Conf2ACK"]
<1>0. /\ TypeInv /\ Truthful /\ f \in Endpoint /\ Peer(f) = e
      /\ "Conf2ACK" \in MessageType
      /\ k \in Negotiation /\ k \in Nat \ {0}
  BY Endpoints, NegIsNat, ModesAreKnown DEF Inv, MessageType, Negotiation
<1>1. /\ m \in Message /\ m.from = f /\ m.type = "Conf2ACK" /\ Truth(m)
      /\ m.neg \in Nat \ {0}
  BY <1>0, StoredIsAround, MessageFields DEF Truthful
<1>2. k <= m.neg
  BY <1>0, StoredIsFresh
<1>3. Completed(f, m.neg)
  BY <1>1 DEF Truth
<1>4. Completed(f, k)
  <2>1. Len(results[f]) \in Nat
    BY <1>0, NegIsNat
  <2> QED
    BY <1>0, <1>1, <1>2, <1>3, <2>1, CompletedOnes
<1>5. ~Completed(e, k)
  BY <1>0, CompletedOnes
<1>6. Agreed(f, e, k)
  BY <1>0 DEF Inv, AllAgreed
<1>7. Behind(f, e, k)
  BY <1>4, <1>5, <1>6 DEF Agreed, TooSoon
<1> QED
  BY <1>4, <1>7 DEF DoneFor, Behind

\* e returns from init: the results grow.
LEMMA FinishFrame ==
  ASSUME TypeInv, NEW e \in Endpoint, phase[e] \in {"conf1", "conf2"},
         Finish(e), neg' = neg, Fixed
  PROVE  /\ phase' = [phase EXCEPT ![e] = "idle"]
         /\ tries' \in [Endpoint -> Nat]
         /\ results' \in [Endpoint -> Seq(Keys)]
         /\ results'[Peer(e)] = results[Peer(e)]
         /\ \A n \in Nat \ {0} :
              /\ Completed(Peer(e), n)' = Completed(Peer(e), n)
              /\ Completed(e, n)' <=> Completed(e, n) \/ n = neg[e]
              /\ Completed(e, n) => results'[e][n] = results[e][n]
         /\ results'[e][neg[e]] = s0[e]
         /\ Len(results'[e]) = neg[e]
<1>1. /\ results \in [Endpoint -> Seq(Keys)] /\ results[e] \in Seq(Keys)
      /\ s0[e] \in Keys
      /\ Peer(e) \in Endpoint /\ Peer(e) # e
      /\ neg[e] \in Nat \ {0} /\ Len(results[e]) = neg[e] - 1
      /\ phase \in [Endpoint -> Phases] /\ tries \in [Endpoint -> Nat]
  <2>1. ResultsMatch(e) /\ neg[e] \in Nat
    BY NegIsNat DEF TypeInv
  <2> QED
    BY <2>1, Endpoints DEF TypeInv, ResultsMatch
<1>2. /\ results' = [results EXCEPT ![e] = Append(results[e], s0[e])]
      /\ phase' = [phase EXCEPT ![e] = "idle"]
      /\ tries' = [tries EXCEPT ![e] = 0]
  BY DEF Finish, Goto
<1>3. results'[e] = Append(results[e], s0[e])
      /\ results'[Peer(e)] = results[Peer(e)]
  BY <1>1, <1>2
<1>4. /\ Append(results[e], s0[e]) \in Seq(Keys)
      /\ Len(Append(results[e], s0[e])) = neg[e]
      /\ DOMAIN Append(results[e], s0[e]) = 1 .. neg[e]
      /\ DOMAIN results[e] = 1 .. (neg[e] - 1)
      /\ Append(results[e], s0[e])[neg[e]] = s0[e]
      /\ \A n \in 1 .. (neg[e] - 1) :
           Append(results[e], s0[e])[n] = results[e][n]
  BY <1>1
<1>5. results' \in [Endpoint -> Seq(Keys)] /\ tries' \in [Endpoint -> Nat]
  BY <1>1, <1>2, <1>4
<1>6. ASSUME NEW n \in Nat \ {0}
      PROVE  /\ Completed(Peer(e), n)' = Completed(Peer(e), n)
             /\ Completed(e, n)' <=> Completed(e, n) \/ n = neg[e]
             /\ Completed(e, n) => results'[e][n] = results[e][n]
  <2>1. Completed(Peer(e), n)' = Completed(Peer(e), n)
    BY <1>3 DEF Completed
  <2>2. Completed(e, n)' <=> n \in 1 .. neg[e]
    BY <1>3, <1>4 DEF Completed
  <2>3. Completed(e, n) <=> n \in 1 .. (neg[e] - 1)
    BY <1>4 DEF Completed
  <2> QED
    BY <1>1, <1>3, <1>4, <2>1, <2>2, <2>3
<1> QED
  BY <1>2, <1>3, <1>4, <1>5, <1>6

LEMMA FinishKeeps ==
  ASSUME Inv, NEW e \in Endpoint, phase[e] \in {"conf1", "conf2"},
         NEW S, S \subseteq {"Conf2ACK"}, S # {} => phase[e] = "conf1",
         Send(e, S), Finish(e), UNCHANGED <<neg, got, keyVars>>, Unchanged,
         ~MixedAgain(neg[e]) => DoneFor(e, Peer(e))
  PROVE  Inv'
<1> DEFINE f == Peer(e)
           k == neg[e]
<1>0. /\ TypeInv /\ f \in Endpoint /\ f # e /\ Peer(f) = e
      /\ \A g \in Endpoint : g # e => g = f
      /\ k \in Negotiation /\ k \in Nat \ {0} /\ neg[f] \in Nat
  <2>1. TypeInv /\ f \in Endpoint /\ f # e /\ Peer(f) = e
        /\ \A g \in Endpoint : g # e => g = f
    BY Endpoints DEF Inv
  <2>2. k \in Negotiation /\ neg[f] \in Nat
    BY <2>1, NegIsNat
  <2>3. k \in Nat \ {0}
    BY <2>1, <2>2, ModesAreKnown DEF Negotiation
  <2> QED
    BY <2>1, <2>2, <2>3
<1>1. /\ Fixed /\ neg' = neg /\ got' = got /\ mixed' = mixed
      /\ r_msg' = r_msg /\ s0' = s0 /\ role' = role
      /\ confirmKeys' = confirmKeys /\ ackLost' = ackLost
  BY DEF Fixed, keyVars, Unchanged, fixed
<1>2. /\ Modes' = Modes /\ Negotiation' = Negotiation
      /\ Keys' = Keys /\ RMsg' = RMsg /\ Message' = Message
      /\ larger' = larger
  BY <1>1, FixedOnes DEF Fixed
<1>3. /\ phase' = [phase EXCEPT ![e] = "idle"]
      /\ tries' \in [Endpoint -> Nat]
      /\ results' \in [Endpoint -> Seq(Keys)]
      /\ results'[f] = results[f]
      /\ \A n \in Nat \ {0} :
           /\ Completed(f, n)' = Completed(f, n)
           /\ Completed(e, n)' <=> Completed(e, n) \/ n = k
           /\ Completed(e, n) => results'[e][n] = results[e][n]
      /\ results'[e][k] = s0[e]
      /\ Len(results'[e]) = k
  BY <1>0, <1>1, FinishFrame
<1>4. phase'[e] = "idle" /\ phase'[f] = phase[f]
  BY <1>0, <1>3 DEF TypeInv
<1>5. ASSUME NEW m, Around(m)'
      PROVE  \/ Around(m)
             \/ /\ phase[e] = "conf1" /\ m.type = "Conf2ACK"
                /\ m.from = e /\ m.neg = k
  <2>1. CASE m \in net'
    <3>1. CASE m \in net
      BY <3>1 DEF Around
    <3>2. CASE m \notin net
      <4>1. PICK t \in S : m = Msg(e, t)
        BY <2>1, <3>2 DEF Send
      <4>2. t \in MessageType /\ t = "Conf2ACK" /\ phase[e] = "conf1"
        BY <4>1 DEF MessageType
      <4> QED
        BY <1>0, <4>1, <4>2, MsgIsMessage
    <3> QED
      BY <3>1, <3>2
  <2>2. CASE got'[Peer(m.from)][m.type] = m
    BY <1>1, <2>2 DEF Around
  <2> QED
    BY <1>5, <2>1, <2>2 DEF Around
<1>6. TypeInv'
  <2>1. net' \subseteq Message
    <3>1. \A t \in S : Msg(e, t) \in Message
      BY <1>0, MsgIsMessage DEF MessageType
    <3> QED
      BY <1>0, <3>1 DEF Send, TypeInv
  <2>2. phase' \in [Endpoint -> Phases]
    BY <1>0, <1>3 DEF TypeInv, Phases
  <2>3. \A g \in Endpoint : ResultsMatch(g)'
    <3>1. ResultsMatch(e)'
      BY <1>1, <1>3, <1>4 DEF ResultsMatch
    <3>2. ResultsMatch(f)'
      <4>1. ResultsMatch(f)
        BY <1>0 DEF TypeInv
      <4> QED
        BY <1>1, <1>3, <1>4, <4>1 DEF ResultsMatch
    <3> QED
      BY <1>0, <3>1, <3>2
  <2>4. \A g \in Endpoint : \A t \in MessageType : StoredRight(g, t)'
    BY <1>0, <1>1, <1>2 DEF TypeInv, StoredRight, Stored
  <2>5. scenario' \in Scenarios /\ larger' \in [Negotiation -> Endpoint]
    BY <1>0, <1>1 DEF TypeInv, Fixed
  <2> QED
    BY <1>0, <1>1, <1>2, <1>3, <2>1, <2>2, <2>3, <2>4, <2>5 DEF TypeInv
<1>7. \A g \in Endpoint : Local(g)'
  <2>1. Local(e)'
    BY <1>4 DEF Local
  <2>2. Local(f)'
    BY <1>0, <1>1, <1>4, LocalStays DEF Inv, Stored
  <2> QED
    BY <1>0, <2>1, <2>2
<1>8. Truthful'
  <2> SUFFICES ASSUME NEW m \in Message, Around(m)' PROVE Truth(m)'
    BY <1>2 DEF Truthful
  <2>1. m.from \in Endpoint /\ m.neg \in Nat \ {0}
    BY <1>0, MessageFields
  <2>2. CASE Around(m) /\ m.from = f
    <3>1. Truth(m)
      BY <2>2 DEF Inv, Truthful
    <3> QED
      BY <1>0, <1>1, <1>3, <1>4, <2>2, <3>1, TruthStays DEF Stored
  <2>3. CASE Around(m) /\ m.from = e
    <3>1. Truth(m)
      BY <2>3 DEF Inv, Truthful
    <3>2. Completed(e, m.neg) => Completed(e, m.neg)'
      BY <1>3, <2>1
    <3>3. /\ Derived(e)' <=> Derived(e)
          /\ HasPart(e, "DHPart2")' <=> HasPart(e, "DHPart2")
      BY <1>1, SameDerivation
         DEF Derived, HasKeys, HasPart, Greeted, Stored, keyVars
    <3>4. Current(m) => Current(m)'
      BY <1>4, <2>3, <3>3 DEF Current
    <3> QED
      BY <1>1, <1>2, <2>3, <3>1, <3>2, <3>4 DEF Truth
  <2>4. CASE m.type = "Conf2ACK" /\ m.from = e /\ m.neg = k
    <3>1. Completed(e, k)'
      BY <1>0, <1>3
    <3> QED
      BY <1>0, <1>1, <2>4, <3>1 DEF Truth, Current
  <2> QED
    BY <1>0, <1>5, <2>1, <2>2, <2>3, <2>4
<1>9. /\ \A n : Mixed(n)' = Mixed(n)
      /\ \A n : MixedAgain(n)' = MixedAgain(n)
  BY <1>1 DEF Mixed, MixedAgain
<1>10. Fresh'
  <2>1. \A g \in Endpoint : \A t \in MessageType : FreshStore(g, t)'
    BY <1>1, <1>9 DEF Inv, Fresh, FreshStore, Stored
  <2>2. ASSUME NEW m \in net' PROVE FreshMessage(m)'
    <3>1. CASE m \in net
      BY <1>1, <1>9, <3>1 DEF Inv, Fresh, FreshMessage
    <3>2. CASE m \notin net
      <4>1. PICK t \in S : m = Msg(e, t)
        BY <3>2 DEF Send
      <4>2. t \in MessageType /\ t = "Conf2ACK" /\ phase[e] = "conf1"
        BY <4>1 DEF MessageType
      <4>3. m.from = e /\ m.neg = k
        BY <1>0, <4>1, <4>2, MsgIsMessage
      <4>4. k < neg[f] => Mixed(neg[f] - 1)
        BY <1>0, <4>2, OnlyConfirm2IsLate
      <4> QED
        BY <1>1, <1>9, <4>3, <4>4 DEF FreshMessage
    <3> QED
      BY <3>1, <3>2
  <2> QED
    BY <2>1, <2>2 DEF Fresh
<1>11. AllAgreed'
  <2> SUFFICES ASSUME NEW n \in Negotiation, ~MixedAgain(n)
               PROVE  Agreed(e, f, n)' /\ Agreed(f, e, n)'
    BY <1>0, <1>2, <1>9 DEF AllAgreed, Agreed
  <2>0. /\ n \in Nat \ {0} /\ Agreed(e, f, n) /\ Agreed(f, e, n)
        /\ Completed(e, n) <=> n < k
    BY <1>0, ModesAreKnown, CompletedOnes DEF Inv, AllAgreed, Negotiation
  <2>1. CASE n = k
    <3>1. DoneFor(e, f) /\ ~MixedAgain(k)
      BY <2>1
    <3>2. /\ Completed(e, n)' /\ results'[e][n] = s0[e]
          /\ Completed(f, n)' = Completed(f, n)
      BY <1>3, <2>0, <2>1
    <3>3. CASE Completed(f, k) /\ results[f][k] = s0[e]
      BY <1>3, <2>1, <3>2, <3>3 DEF Agreed
    <3>4. CASE ~Completed(f, k)
      <4>1. Agreed(f, e, n)'
        BY <2>1, <3>2, <3>4 DEF Agreed
      <4>2. Behind(e, f, n)' \/ TooSoon(e, f, n)'
        <5>1. CASE /\ \/ phase[f] \in {"conf2", "failed"}
                      \/ phase[f] = "dh2" /\ k \in mixed[e]
                   /\ s0[f] = s0[e]
          BY <1>1, <1>4, <2>1, <3>1, <3>2, <3>4, <5>1 DEF DoneFor, Behind
        <5>2. CASE ~(/\ \/ phase[f] \in {"conf2", "failed"}
                        \/ phase[f] = "dh2" /\ k \in mixed[e]
                     /\ s0[f] = s0[e])
          <6>1. /\ k \in mixed[e]
                /\ Mode(e) = "msm"
                /\ phase[f] = "failed"
                     \/ (phase[f] = "commit" /\ r_msg[f].hello = k)
                /\ s0[e] = [initiator |-> f, hello |-> k, commit |-> k,
                            dh1 |-> 0, dh2 |-> 0]
                /\ \A m \in Message : Around(m) /\ m.from = e /\ k <= m.neg =>
                     \/ m.type \in {"Hello", "HelloACK", "Confirm1", "Conf2ACK"}
                     \/ m.type = "Commit" /\ m.neg = k /\ larger[k] = f
                /\ neg[f] = k
            BY <3>1, <3>4, <5>2 DEF DoneFor
          <6>2. \A m \in Message : Around(m)' /\ m.from = e /\ k <= m.neg =>
                  \/ m.type \in {"Hello", "HelloACK", "Confirm1", "Conf2ACK"}
                  \/ m.type = "Commit" /\ m.neg = k /\ larger[k] = f
            BY <1>5, <6>1
          <6> QED
            BY <1>1, <1>2, <1>4, <2>1, <3>2, <6>1, <6>2 DEF TooSoon, Mode
        <5> QED
          BY <5>1, <5>2
      <4>3. s0[e].initiator = f
        BY <3>1, <3>4 DEF DoneFor
      <4> QED
        BY <1>3, <2>1, <3>2, <4>1, <4>2, <4>3 DEF Agreed
    <3> QED
      BY <3>1, <3>3, <3>4 DEF DoneFor
  <2>2. CASE n < k
    <3>1. /\ Completed(e, n) /\ Completed(e, n)'
          /\ results'[e][n] = results[e][n]
          /\ Completed(f, n)' = Completed(f, n)
      BY <1>3, <2>0, <2>2
    <3>2. ~TooSoon(e, f, n) /\ ~TooSoon(f, e, n) /\ ~Behind(f, e, n)
      BY <1>0, <2>2 DEF TooSoon, Behind
    <3>3. Behind(e, f, n) => Behind(e, f, n)'
      BY <1>1, <1>4, <3>1 DEF Behind
    <3> QED
      BY <1>3, <1>9, <2>0, <3>1, <3>2, <3>3 DEF Agreed
  <2>3. CASE n > k
    <3>1. ~Completed(e, n) /\ ~Completed(e, n)'
      BY <1>0, <1>3, <2>0, <2>3
    <3>2. ~TooSoon(f, e, n) /\ ~Behind(f, e, n)
      BY <1>0, <2>3 DEF TooSoon, Behind
    <3>3. ~Completed(f, n)
      BY <2>0, <3>1, <3>2 DEF Agreed
    <3>4. ~Completed(f, n)'
      BY <1>3, <2>0, <3>3
    <3> QED
      BY <3>1, <3>4 DEF Agreed
  <2> QED
    BY <1>0, <2>0, <2>1, <2>2, <2>3
<1>12. NeverCrashes'
  BY <1>0, <1>1, <1>4, <1>9 DEF Inv, NeverCrashes
<1> QED
  BY <1>6, <1>7, <1>8, <1>10, <1>11, <1>12 DEF Inv

LEMMA TakeConf2ACKKeeps ==
  ASSUME Inv, NEW e \in Endpoint, TakeConf2ACK(e)
  PROVE  Inv'
<1>1. ~MixedAgain(neg[e]) => DoneFor(e, Peer(e))
  BY InitiatorIsDone DEF TakeConf2ACK
<1>2. Send(e, {})
  BY DEF TakeConf2ACK, Send
<1> QED
  BY <1>1, <1>2, FinishKeeps DEF TakeConf2ACK

LEMMA TakeConfirm2Keeps ==
  ASSUME Inv, NEW e \in Endpoint, TakeConfirm2(e)
  PROVE  Inv'
<1>0. TypeInv /\ phase[e] = "conf1" /\ Stored(e, "Confirm2")
      /\ UNCHANGED <<neg, got, keyVars>> /\ Unchanged
  BY DEF Inv, TakeConfirm2
<1>1. CASE validate_session("RESPONDER", got[e]["Confirm2"], r_msg[e])
  <2>1. ~MixedAgain(neg[e]) => DoneFor(e, Peer(e))
    BY <1>0, ResponderIsDone
  <2>2. Send(e, {"Conf2ACK"}) /\ Finish(e)
    BY <1>1 DEF TakeConfirm2
  <2> QED
    BY <1>0, <2>1, <2>2, FinishKeeps
<1>2. CASE ~validate_session("RESPONDER", got[e]["Confirm2"], r_msg[e])
  <2>1. Goto(e, "failed") /\ UNCHANGED <<net, results>>
    BY <1>2 DEF TakeConfirm2
  <2>2. Send(e, {})
    BY <2>1 DEF Send
  <2>3. /\ phase' = [phase EXCEPT ![e] = phase'[e]]
        /\ phase'[e] = "failed"
        /\ tries' \in [Endpoint -> Nat]
    BY <1>0, <2>1, GotoGoes
  <2> QED
    BY <1>0, <2>1, <2>2, <2>3, LateMoves
<1> QED
  BY <1>1, <1>2

-----------------------------------------------------------------------------
(* The theorems *)

LEMMA InitHolds == Init => Inv
<1> SUFFICES ASSUME Init PROVE Inv
  OBVIOUS
<1>1. scenario \in Scenarios /\ Len(Modes) \in Nat
  <2>1. scenario \in Scenarios
    BY DEF Init
  <2>2. Modes \in Seq({"dh", "msm"})
    BY <2>1, ScenariosAssumption DEF Modes
  <2> QED
    BY <2>1, <2>2
<1>2. NoKeys \in Keys
  BY <1>1 DEF NoKeys, Keys
<1>3. TypeInv
  <2>1. /\ net \subseteq Message
        /\ larger \in [Negotiation -> Endpoint]
        /\ phase \in [Endpoint -> Phases]
        /\ neg \in [Endpoint -> 0 .. Len(Modes)]
        /\ tries \in [Endpoint -> Nat]
    BY <1>1 DEF Init, Phases
  <2>2. got \in [Endpoint -> [MessageType -> Message \cup {NoMsg}]]
    BY DEF Init, NothingStored
  <2>3. /\ role \in [Endpoint -> Roles]
        /\ s0 \in [Endpoint -> Keys]
        /\ confirmKeys \in [Endpoint -> Keys]
        /\ ackLost \in BOOLEAN
        /\ mixed \in [Endpoint -> SUBSET Negotiation]
    BY <1>2 DEF Init, Roles
  <2>4. r_msg \in [Endpoint -> RMsg]
    BY <1>1 DEF Init, RMsg
  <2>5. results \in [Endpoint -> Seq(Keys)]
    BY DEF Init
  <2>6. \A e \in Endpoint : \A t \in MessageType : StoredRight(e, t)
    BY DEF Init, StoredRight, Stored, NothingStored
  <2>7. \A e \in Endpoint : ResultsMatch(e)
    BY DEF Init, ResultsMatch
  <2> QED
    BY <1>1, <2>1, <2>2, <2>3, <2>4, <2>5, <2>6, <2>7 DEF TypeInv
<1>4. \A e \in Endpoint : phase[e] = "idle"
  BY DEF Init
<1>5. \A e \in Endpoint : \A t \in MessageType : ~Stored(e, t)
  BY DEF Init, Stored, NothingStored
<1>6. Truthful
  <2>1. \A m \in Message : ~Around(m)
    <3> SUFFICES ASSUME NEW m \in Message, Around(m) PROVE FALSE
      OBVIOUS
    <3>1. Peer(m.from) \in Endpoint /\ m.type \in MessageType /\ m # NoMsg
      BY <1>3, MessageFields, Endpoints
    <3>2. m \notin net
      BY DEF Init
    <3> QED
      BY <1>5, <3>1, <3>2 DEF Around, Stored
  <2> QED
    BY <2>1 DEF Truthful
<1>7. Fresh
  BY <1>5 DEF Init, Fresh, FreshStore
<1>8. AllAgreed
  BY Endpoints DEF Init, AllAgreed, Agreed, Completed
<1>9. NeverCrashes
  BY <1>4 DEF NeverCrashes
<1>10. \A e \in Endpoint : Local(e)
  BY <1>4 DEF Local
<1> QED
  BY <1>3, <1>6, <1>7, <1>8, <1>9, <1>10 DEF Inv

LEMMA NextKeeps == Inv /\ [Next]_vars => Inv'
<1> SUFFICES ASSUME Inv, [Next]_vars PROVE Inv'
  OBVIOUS
<1>1. CASE UNCHANGED vars
  <2>1. /\ UNCHANGED <<net, losses, phase, neg, tries, got, keyVars,
                       results, ackLost, mixed>>
        /\ Fixed
    BY <1>1 DEF vars, keyVars, Fixed
  <2>2. /\ Modes' = Modes /\ Negotiation' = Negotiation
        /\ Keys' = Keys /\ RMsg' = RMsg /\ Message' = Message
    BY <2>1, FixedOnes
  <2>3. TypeInv'
    BY <2>1, <2>2
       DEF Inv, TypeInv, StoredRight, Stored, ResultsMatch, keyVars, Fixed
  <2>4. \A m \in Message : Around(m)' => Around(m)
    BY <2>1 DEF Around
  <2>5. \A e \in Endpoint : \A t \in MessageType :
          Stored(e, t) => Stored(e, t)' /\ got'[e][t] = got[e][t]
    BY <2>1 DEF Stored
  <2>6. \A e \in Endpoint : \A t \in MessageType : FreshStore(e, t)'
    BY <2>1 DEF Inv, Fresh, FreshStore, Stored, Mixed, MixedAgain
  <2> QED
    BY <2>1, <2>3, <2>4, <2>5, <2>6, ArriveKeeps
<1>2. ASSUME NEW m \in net, Receive(m) \/ Refuse(m) \/ Lose(m) PROVE Inv'
  BY <1>2, ReceiveKeeps, DropKeeps
<1>3. ASSUME NEW e \in Endpoint, Proceed(e) PROVE Inv'
  BY <1>3, StartKeeps, HelloKeeps, AlreadyCommittedKeeps, ProposeCommitKeeps,
     CommitContentionKeeps, TakeDHPart1Keeps, TakeDHPart2Keeps, LateKeeps,
     TakeConfirm1MSMKeeps, TakeConfirm2Keeps, TakeConf2ACKKeeps
     DEF Proceed
<1>4. ASSUME NEW e \in Endpoint, Timer(e) PROVE Inv'
  BY <1>4, HelloKeeps, SendCommitKeeps, LateKeeps DEF Timer
<1>5. ASSUME NEW e \in Endpoint, AnswerHello(e) PROVE Inv'
  BY <1>5, HelloKeeps
<1> QED
  BY <1>1, <1>2, <1>3, <1>4, <1>5 DEF Next

LEMMA InvHolds == Spec => []Inv
<1>1. Init => Inv
  BY InitHolds
<1>2. Inv /\ [Next]_vars => Inv'
  BY NextKeeps
<1> QED
  BY <1>1, <1>2, PTL DEF Spec

\* The variables of both endpoints and of the network keep their types: what is
\* stored as a message of a type is one, and comes from the peer.
THEOREM HandshakeTypes == Spec => []TypeOK
<1>1. Inv => TypeOK
  <2> SUFFICES ASSUME Inv PROVE TypeOK
    OBVIOUS
  <2>1. TypeInv
    BY DEF Inv
  <2>2. \A m \in net : /\ m.from \in Endpoint
                       /\ m.neg \in Negotiation
                       /\ m.type \in MessageType
                       /\ m.key \in Keys
    BY <2>1 DEF TypeInv, Message
  <2>3. \A e \in Endpoint : \A t \in MessageType :
          Stored(e, t) => got[e][t].type = t /\ got[e][t].from = Peer(e)
    BY <2>1 DEF TypeInv, StoredRight
  <2> QED
    BY <2>1, <2>2, <2>3 DEF TypeInv, TypeOK, Phases, Roles
<1> QED
  BY <1>1, InvHolds, PTL

\* Endpoints that both complete a negotiation have the same keys and opposite
\* roles, unless old messages were taken in it and in the one before.
THEOREM KeysAreEqual == Spec => []KeysAgree
<1>1. Inv => KeysAgree
  <2> SUFFICES ASSUME Inv, NEW n \in Negotiation,
                      Completed(1, n), Completed(2, n), ~MixedAgain(n)
               PROVE  results[1][n] = results[2][n]
    BY DEF KeysAgree
  <2>1. 1 \in Endpoint /\ 2 \in Endpoint /\ Peer(1) = 2
    BY DEF Endpoint, Peer
  <2>2. Agreed(1, 2, n)
    BY <2>1 DEF Inv, AllAgreed
  <2>3. neg[2] = n => phase[2] = "idle"
    BY <2>1, CompletedOnes, ModesAreKnown DEF Inv, Negotiation
  <2> QED
    BY <2>2, <2>3 DEF Agreed, Behind, TooSoon
<1> QED
  BY <1>1, InvHolds, PTL

\* An endpoint that has completed a negotiation was the responder, and its peer
\* has derived the same keys, or its peer has completed it too.
THEOREM InitiatorCompletesLast == Spec => []InitiatorIsLast
<1>1. Inv => InitiatorIsLast
  <2> SUFFICES ASSUME Inv, NEW n \in Negotiation, NEW e \in Endpoint,
                      Completed(e, n), ~MixedAgain(n), ~Completed(Peer(e), n)
               PROVE  /\ results[e][n].initiator = Peer(e)
                      /\ \/ neg[Peer(e)] = n /\ s0[Peer(e)] = results[e][n]
                         \/ n \in mixed[e]
    BY DEF InitiatorIsLast
  <2>1. Agreed(e, Peer(e), n)
    BY DEF Inv, AllAgreed
  <2> QED
    BY <2>1 DEF Agreed, Behind, TooSoon
<1> QED
  BY <1>1, InvHolds, PTL

\* An endpoint that gets an answer to its Commit has the message that its mode
\* asks for, unless old messages were taken in two negotiations in a row.
THEOREM AnswersAreParsed == Spec => []NeverCrashes
<1>1. Inv => NeverCrashes
  BY DEF Inv
<1> QED
  BY <1>1, InvHolds, PTL
=============================================================================
