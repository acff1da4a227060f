---------------------------- MODULE ZrtpHandshake ----------------------------
(***************************************************************************)
(* uvgrtp::zrtp: two endpoints negotiate the keys of their streams, one    *)
(* stream after the other, each with one zrtp object.  The first stream    *)
(* uses Diffie-Hellman mode, later ones either that or multistream mode,   *)
(* which skips the DHPart messages and goes on using the keys that the     *)
(* last Diffie-Hellman negotiation made for the Confirm messages.          *)
(*                                                                         *)
(* UDP carries the messages.  An endpoint waits in a loop that sends its   *)
(* message again each time an interval has passed, and gives up after a    *)
(* number of times; the reception flow's thread stores the first message   *)
(* of each type in the meantime.  One action is one such iteration with an *)
(* effect.  Messages are not formatted: hashes and keys are what they are  *)
(* computed from, the negotiations that the messages belong to.  Both ends *)
(* are uvgRTP and speak the same version of ZRTP.                          *)
(***************************************************************************)
EXTENDS Integers, Sequences, FiniteSets

CONSTANTS
  Scenarios,      \* the situations considered, see Scenario
  HelloTries,     \* 20: a Hello is sent so many times
  Tries,          \* 10: any other message
  MaxLosses       \* bound: how many messages are lost

\* modes: of the negotiations, one after the other.  patient: the endpoints
\* never give up, they do not count how often they have sent a message.
ASSUME ScenariosAssumption ==
  \A s \in Scenarios : /\ s.modes \in Seq({"dh", "msm"})
                       /\ s.modes # <<>>
                       /\ s.modes[1] = "dh"
                       /\ s.patient \in BOOLEAN
ASSUME TriesAssumption == {HelloTries, Tries} \subseteq Nat \ {0}
VARIABLES
  net,          \* messages in flight
  losses,       \* how many were lost
  scenario,     \* the situation of this behaviour
  larger,       \* whose Commit has the larger hvi, in each negotiation
  phase,        \* [endpoint -> the loop it is in]
  neg,          \* [endpoint -> number of its last negotiation]
  tries,        \* [endpoint -> i, how often the message was sent]
  got,          \* [endpoint -> [type -> message stored, or NoMsg]]
  role,         \* [endpoint -> session_.role]
  r_msg,        \* [endpoint -> session_.r_msg: whose Hello, Commit, DHPart]
  s0,           \* [endpoint -> what the session's keys are derived from]
  confirmKeys,  \* [endpoint -> and the keys of its Confirm messages]
  (* history *)
  results,      \* [endpoint -> keys of the negotiations it completed]
  ackLost,      \* a HelloACK or Conf2ACK was lost
  mixed         \* [endpoint -> negotiations in which it stored an earlier message]

fixed   == <<scenario, larger>>
keyVars == <<role, r_msg, s0, confirmKeys>>
vars == <<net, losses, scenario, larger, phase, neg, tries, got,
          role, r_msg, s0, confirmKeys, results, ackLost, mixed>>

Endpoint == {1, 2}
Peer(e) == 3 - e
Modes == scenario.modes
patient == scenario.patient
Negotiation == 1 .. Len(Modes)
Mode(e) == Modes[neg[e]]

MessageType == {"Hello", "HelloACK", "Commit", "DHPart1", "DHPart2",
                "Confirm1", "Confirm2", "Conf2ACK"}

NoKeys == [initiator |-> 0, hello |-> 0, commit |-> 0, dh1 |-> 0, dh2 |-> 0]
NoMsg  == [from |-> 0, neg |-> 0, type |-> "none", key |-> NoKeys]
NothingStored == [t \in MessageType |-> NoMsg]

\* The message of type t that e sends.  The same whenever it is sent again.
Msg(e, t) ==
  [from |-> e, neg |-> neg[e], type |-> t,
   key |-> IF t \in {"Confirm1", "Confirm2"} THEN confirmKeys[e] ELSE NoKeys]

Stored(e, t) == got[e][t] # NoMsg

\* The endpoints are alike: in the first negotiation it is endpoint 1.
Init ==
  /\ net = {}
  /\ losses = 0
  /\ scenario \in Scenarios
  /\ larger \in {f \in [Negotiation -> Endpoint] : f[1] = 1}
  /\ phase = [e \in Endpoint |-> "idle"]
  /\ neg = [e \in Endpoint |-> 0]
  /\ tries = [e \in Endpoint |-> 0]
  /\ got = [e \in Endpoint |-> NothingStored]
  /\ role = [e \in Endpoint |-> "none"]
  /\ r_msg = [e \in Endpoint |-> [hello |-> 0, commit |-> 0, dh |-> 0]]
  /\ s0 = [e \in Endpoint |-> NoKeys]
  /\ confirmKeys = [e \in Endpoint |-> NoKeys]
  /\ results = [e \in Endpoint |-> <<>>]
  /\ ackLost = FALSE
  /\ mixed = [e \in Endpoint |-> {}]

-----------------------------------------------------------------------------
(* The network and the packet handler *)

\* Mutant: the answer to a Confirm2 is stored in the wrong place.
ReceiveMisplaced(m) ==
  LET e == Peer(m.from)
      t == IF m.type = "Conf2ACK" THEN "Confirm2" ELSE m.type
  IN /\ m \in net
     /\ net' = net \ {m}
     /\ got' = IF Stored(e, t) THEN got ELSE [got EXCEPT ![e][t] = m]
     /\ UNCHANGED <<losses, fixed, phase, neg, tries, keyVars, results,
                    ackLost, mixed>>

\* packet_handler: the first message of each type is kept.  It does not say
\* which negotiation it belongs to.
Receive(m) ==
  LET e == Peer(m.from)
  IN /\ m \in net
     /\ net' = net \ {m}
     /\ got' = IF Stored(e, m.type) THEN got ELSE [got EXCEPT ![e][m.type] = m]
     /\ mixed' = IF ~Stored(e, m.type) /\ m.neg < neg[e]
                 THEN [mixed EXCEPT ![e] = @ \cup {neg[e]}] ELSE mixed
     /\ UNCHANGED <<losses, fixed, phase, neg, tries, keyVars, results,
                    ackLost>>

\* The stream that m is for has no socket yet.
Refuse(m) ==
  /\ m \in net
  /\ m.neg > neg[Peer(m.from)]
  /\ net' = net \ {m}
  /\ UNCHANGED <<losses, fixed, phase, neg, tries, got, keyVars, results,
                 ackLost, mixed>>

\* For an endpoint that gives up a lost message is like a late one.
Lose(m) ==
  /\ patient
  /\ m \in net
  /\ losses < MaxLosses
  /\ losses' = losses + 1
  /\ net' = net \ {m}
  /\ ackLost' = (ackLost \/ m.type \in {"HelloACK", "Conf2ACK"})
  /\ UNCHANGED <<fixed, phase, neg, tries, got, keyVars, results, mixed>>

-----------------------------------------------------------------------------
(* Steps of an endpoint *)

Send(e, types) == net' = net \cup {Msg(e, t) : t \in types}

Goto(e, p) ==
  /\ phase' = [phase EXCEPT ![e] = p]
  /\ tries' = [tries EXCEPT ![e] = 0]

Stay == UNCHANGED <<phase, tries>>
Unchanged == UNCHANGED <<losses, ackLost, mixed, fixed>>

\* Mutant: the sends of a loop are not counted.
ResendUncounted(e, types, limit) ==
  /\ Send(e, types)
  /\ UNCHANGED <<phase, tries>>

\* An interval has passed: e sends, and after the last time gives up at once,
\* without waiting for an answer.
Resend(e, types, limit) ==
  /\ Send(e, types)
  /\ IF patient THEN Stay
     ELSE /\ tries' = [tries EXCEPT ![e] = @ + 1]
          /\ phase' = IF tries[e] + 1 = limit
                      THEN [phase EXCEPT ![e] = "failed"] ELSE phase

\* Mutant: the next negotiation keeps the messages of the last one.
resetSessionKeeps(e) == UNCHANGED got

resetSession(e) == got' = [got EXCEPT ![e] = NothingStored]

\* init: the next stream is started, after the last one got its keys.  Bound:
\* what is in flight to e is lost, not late.
init(e) ==
  /\ phase[e] = "idle"
  /\ neg[e] < Len(Modes)
  /\ neg' = [neg EXCEPT ![e] = @ + 1]
  /\ resetSession(e)
  /\ Goto(e, "hello")
  /\ net' = {m \in net : m.from = e}
  /\ UNCHANGED <<keyVars, results>> /\ Unchanged

\* init returns RTP_OK and the stream takes its keys (get_srtp_keys).
Finish(e) ==
  /\ results' = [results EXCEPT ![e] = Append(@, s0[e])]
  /\ Goto(e, "idle")

-----------------------------------------------------------------------------
(* begin_session *)

\* Each iteration with a Hello answers it; the first one keeps it.
Answers(e) == IF Stored(e, "Hello") THEN {"HelloACK"} ELSE {}
KeepHello(e) ==
  r_msg' = IF Stored(e, "Hello")
           THEN [r_msg EXCEPT ![e].hello = got[e]["Hello"].neg] ELSE r_msg

HelloAnswered(e) == Stored(e, "Hello") /\ Stored(e, "HelloACK")

AnswerHello(e) ==
  /\ phase[e] = "hello"
  /\ Stored(e, "Hello")
  /\ ~HelloAnswered(e)
  /\ Send(e, {"HelloACK"})
  /\ KeepHello(e)
  /\ UNCHANGED <<phase, tries, neg, got, role, s0, confirmKeys, results>>
  /\ Unchanged

SendHello(e) ==
  /\ phase[e] = "hello"
  /\ ~HelloAnswered(e)
  /\ Resend(e, {"Hello"} \cup Answers(e), HelloTries)
  /\ KeepHello(e)
  /\ UNCHANGED <<neg, got, role, s0, confirmKeys, results>> /\ Unchanged

HelloDone(e) ==
  /\ phase[e] = "hello"
  /\ HelloAnswered(e)
  /\ Send(e, {"HelloACK"})
  /\ KeepHello(e)
  /\ Goto(e, "agree")
  /\ UNCHANGED <<neg, got, role, s0, confirmKeys, results>> /\ Unchanged

-----------------------------------------------------------------------------
(* What the keys are derived from: the Hello of the responder, the Commit   *)
(* of the initiator and, in Diffie-Hellman mode, both DHPart messages.      *)

generate_shared_secrets(e, r, remote) ==
  LET initiator == r = "INITIATOR"
      dh == Mode(e) = "dh"
  IN [initiator |-> IF initiator THEN e ELSE Peer(e),
      hello     |-> IF initiator THEN remote.hello ELSE neg[e],
      commit    |-> IF initiator THEN neg[e] ELSE remote.commit,
      dh1       |-> IF ~dh THEN 0 ELSE IF initiator THEN remote.dh ELSE neg[e],
      dh2       |-> IF ~dh THEN 0 ELSE IF initiator THEN neg[e] ELSE remote.dh]

\* The Diffie-Hellman negotiation whose hash chain messages of n contain.
Chain(n) ==
  CHOOSE d \in 1 .. n : /\ Modes[d] = "dh"
                        /\ \A x \in (d + 1) .. n : Modes[x] # "dh"

\* validate_session: the hash in the Confirm message opens the MACs of the
\* other messages of the peer.
validate_session(r, conf, remote) ==
  /\ Chain(remote.hello) = Chain(conf.neg)
  /\ Chain(remote.dh) = Chain(conf.neg)
  /\ r = "RESPONDER" => Chain(remote.commit) = Chain(conf.neg)

-----------------------------------------------------------------------------
(* init_session *)

\* Mutant: the responder sends a DHPart1 in multistream mode too.
RespondDH(e) ==
  /\ role' = [role EXCEPT ![e] = "RESPONDER"]
  /\ r_msg' = [r_msg EXCEPT ![e].commit = got[e]["Commit"].neg]
  /\ Goto(e, "dh1")
  /\ UNCHANGED <<net, neg, got, s0, confirmKeys, results>> /\ Unchanged

\* e has a Commit and becomes the responder.
Respond(e) ==
  LET remote == [r_msg[e] EXCEPT !.commit = got[e]["Commit"].neg]
  IN /\ role' = [role EXCEPT ![e] = "RESPONDER"]
     /\ r_msg' = [r_msg EXCEPT ![e] = remote]
     /\ IF Mode(e) = "dh"
        THEN Goto(e, "dh1") /\ UNCHANGED s0
        ELSE /\ s0' = [s0 EXCEPT ![e] =
                         generate_shared_secrets(e, "RESPONDER", remote)]
             /\ Goto(e, "conf1")
     /\ UNCHANGED <<net, neg, got, confirmKeys, results>> /\ Unchanged

AlreadyCommitted(e) ==
  /\ phase[e] = "agree"
  /\ Stored(e, "Commit")
  /\ Respond(e)

ProposeCommit(e) ==
  /\ phase[e] = "agree"
  /\ ~Stored(e, "Commit")
  /\ role' = [role EXCEPT ![e] = "INITIATOR"]
  /\ Goto(e, "commit")
  /\ UNCHANGED <<net, neg, got, r_msg, s0, confirmKeys, results>> /\ Unchanged

\* Mutant: the Commits are not compared, nobody gives way.
are_we_initiatorAlways(e) == TRUE

\* The Commits of both are compared.
are_we_initiator(e) == larger[neg[e]] = e

GivesWay(e) == Stored(e, "Commit") /\ ~are_we_initiator(e)

SendCommit(e) ==
  /\ phase[e] = "commit"
  /\ tries[e] < Tries
  /\ Send(e, {"Commit"})
  /\ IF patient THEN Stay
     ELSE /\ tries' = [tries EXCEPT ![e] = @ + 1]
          /\ UNCHANGED phase
  /\ UNCHANGED <<neg, got, keyVars, results>> /\ Unchanged

CommitContention(e) ==
  /\ phase[e] = "commit"
  /\ GivesWay(e)
  /\ Respond(e)

\* The responder's answer is there, even if not the one the mode asks for.
CommitAnswered(e) ==
  /\ phase[e] = "commit"
  /\ ~GivesWay(e)
  /\ Stored(e, "DHPart1") \/ Stored(e, "Confirm1")

CommitTimeout(e) ==
  /\ phase[e] = "commit"
  /\ tries[e] = Tries
  /\ Goto(e, "failed")
  /\ UNCHANGED <<net, neg, got, keyVars, results>> /\ Unchanged

-----------------------------------------------------------------------------
(* dh_part1, dh_part2 *)

\* The secrets of a Diffie-Hellman negotiation.
GenerateSecretsDH(e, part, next) ==
  LET remote == [r_msg[e] EXCEPT !.dh = got[e][part].neg]
      keys == generate_shared_secrets(e, role[e], remote)
  IN /\ r_msg' = [r_msg EXCEPT ![e] = remote]
     /\ s0' = [s0 EXCEPT ![e] = keys]
     /\ confirmKeys' = [confirmKeys EXCEPT ![e] = keys]
     /\ Goto(e, next)
     /\ UNCHANGED <<net, neg, got, role, results>> /\ Unchanged

\* A null pointer is parsed.
Crash(e) ==
  /\ Goto(e, "crashed")
  /\ UNCHANGED <<net, neg, got, keyVars, results>> /\ Unchanged

TakeDHPart1(e) ==
  /\ CommitAnswered(e)
  /\ Mode(e) = "dh"
  /\ IF Stored(e, "DHPart1") THEN GenerateSecretsDH(e, "DHPart1", "dh2")
     ELSE Crash(e)

SendDHPart1(e) ==
  /\ phase[e] = "dh1"
  /\ ~Stored(e, "DHPart2")
  /\ Resend(e, {"DHPart1"}, Tries)
  /\ UNCHANGED <<neg, got, keyVars, results>> /\ Unchanged

TakeDHPart2(e) ==
  /\ phase[e] = "dh1"
  /\ Stored(e, "DHPart2")
  /\ GenerateSecretsDH(e, "DHPart2", "conf1")

SendDHPart2(e) ==
  /\ phase[e] = "dh2"
  /\ ~Stored(e, "Confirm1")
  /\ Resend(e, {"DHPart2"}, Tries)
  /\ UNCHANGED <<neg, got, keyVars, results>> /\ Unchanged

-----------------------------------------------------------------------------
(* initiator_finalize_session, responder_finalize_session *)

\* confirm::parse_msg: the Confirm message was made with our keys.
Confirmed(e, type) == got[e][type].key = confirmKeys[e]

Confirm1Valid(e) ==
  Confirmed(e, "Confirm1")
    /\ validate_session("INITIATOR", got[e]["Confirm1"], r_msg[e])

TakeConfirm1(e) ==
  /\ phase[e] = "dh2"
  /\ Stored(e, "Confirm1")
  /\ Goto(e, IF Confirm1Valid(e) THEN "conf2" ELSE "failed")
  /\ UNCHANGED <<net, neg, got, keyVars, results>> /\ Unchanged

\* In multistream mode the Confirm1 is the answer to the Commit.
TakeConfirm1MSM(e) ==
  /\ CommitAnswered(e)
  /\ Mode(e) = "msm"
  /\ IF ~Stored(e, "Confirm1") THEN Crash(e)
     ELSE /\ s0' = [s0 EXCEPT ![e] =
                      generate_shared_secrets(e, "INITIATOR", r_msg[e])]
          /\ Goto(e, IF Confirm1Valid(e) THEN "conf2" ELSE "failed")
          /\ UNCHANGED <<net, neg, got, role, r_msg, confirmKeys, results>>
          /\ Unchanged

SendConfirm1(e) ==
  /\ phase[e] = "conf1"
  /\ ~Stored(e, "Confirm2")
  /\ Resend(e, {"Confirm1"}, Tries)
  /\ UNCHANGED <<neg, got, keyVars, results>> /\ Unchanged

\* A Confirm2 made with other keys is looked at again and again, for ever:
\* the loop neither sends nor counts.
TakeConfirm2(e) ==
  /\ phase[e] = "conf1"
  /\ Stored(e, "Confirm2")
  /\ Confirmed(e, "Confirm2")
  /\ IF validate_session("RESPONDER", got[e]["Confirm2"], r_msg[e])
     THEN Send(e, {"Conf2ACK"}) /\ Finish(e)
     ELSE Goto(e, "failed") /\ UNCHANGED <<net, results>>
  /\ UNCHANGED <<neg, got, keyVars>> /\ Unchanged

\* Mutant: the initiator does not wait for the Conf2ACK.
SendConfirm2NoWait(e) ==
  /\ phase[e] = "conf2"
  /\ Send(e, {"Confirm2"})
  /\ Finish(e)
  /\ UNCHANGED <<neg, got, keyVars>> /\ Unchanged

SendConfirm2(e) ==
  /\ phase[e] = "conf2"
  /\ ~Stored(e, "Conf2ACK")
  /\ Resend(e, {"Confirm2"}, Tries)
  /\ UNCHANGED <<neg, got, keyVars, results>> /\ Unchanged

TakeConf2ACK(e) ==
  /\ phase[e] = "conf2"
  /\ Stored(e, "Conf2ACK")
  /\ Finish(e)
  /\ UNCHANGED <<net, neg, got, keyVars>> /\ Unchanged

-----------------------------------------------------------------------------
\* What e does about the messages it has stored.
Proceed(e) ==
  \/ init(e) \/ HelloDone(e)
  \/ AlreadyCommitted(e) \/ ProposeCommit(e) \/ CommitContention(e)
  \/ TakeDHPart1(e) \/ TakeDHPart2(e) \/ TakeConfirm1(e) \/ TakeConfirm1MSM(e)
  \/ TakeConfirm2(e) \/ TakeConf2ACK(e)

\* What e does because time passes.
Timer(e) ==
  \/ SendHello(e) \/ SendCommit(e) \/ CommitTimeout(e)
  \/ SendDHPart1(e) \/ SendDHPart2(e) \/ SendConfirm1(e) \/ SendConfirm2(e)

Next ==
  \/ \E m \in net : Receive(m) \/ Refuse(m) \/ Lose(m)
  \/ \E e \in Endpoint : Proceed(e) \/ Timer(e) \/ AnswerHello(e)

Spec == Init /\ [][Next]_vars

\* A message of a type that its receiver still lacks arrives.
Useful(e) ==
  \E m \in net : /\ m.from = Peer(e)
                /\ ~Stored(e, m.type)
                /\ Receive(m)

(* The endpoints' threads run, and what is not lost arrives.                *)
Fairness ==
  \A e \in Endpoint : /\ WF_vars(Proceed(e))
                      /\ WF_vars(Timer(e))
                      /\ WF_vars(Useful(e))

FairSpec == Spec /\ Fairness

-----------------------------------------------------------------------------
(* Properties *)

Keys == [initiator : Endpoint \cup {0}, hello : 0 .. Len(Modes),
         commit : 0 .. Len(Modes), dh1 : 0 .. Len(Modes),
         dh2 : 0 .. Len(Modes)]

TypeOK ==
  /\ \A m \in net : /\ m.from \in Endpoint
                    /\ m.neg \in Negotiation
                    /\ m.type \in MessageType
                    /\ m.key \in Keys
  /\ phase \in [Endpoint -> {"idle", "hello", "agree", "commit", "dh1", "dh2",
                             "conf1", "conf2", "failed", "crashed"}]
  /\ neg \in [Endpoint -> 0 .. Len(Modes)]
  /\ tries \in [Endpoint -> Nat]
  /\ \A e \in Endpoint : \A t \in MessageType :
       Stored(e, t) => got[e][t].type = t /\ got[e][t].from = Peer(e)
  /\ role \in [Endpoint -> {"none", "INITIATOR", "RESPONDER"}]
  /\ s0 \in [Endpoint -> Keys]
  /\ confirmKeys \in [Endpoint -> Keys]
  /\ results \in [Endpoint -> Seq(Keys)]
  /\ ackLost \in BOOLEAN
  /\ mixed \in [Endpoint -> SUBSET Negotiation]

Completed(e, n) == n \in DOMAIN results[e]

\* An endpoint stored a message of an earlier negotiation in negotiation n, or
\* even in two negotiations in a row.
Mixed(n) == n \in mixed[1] \cup mixed[2]
MixedAgain(n) == Mixed(n - 1) /\ Mixed(n)

\* Two endpoints that both complete a negotiation have the same keys and
\* opposite roles.  A Confirm2 of the last negotiation that comes late does no
\* harm to that; but a responder that it lets through starts the next stream
\* while its peer still commits, and takes that Commit for one of the next.
KeysAgree ==
  \A n \in Negotiation :
    Completed(1, n) /\ Completed(2, n) =>
      results[1][n] = results[2][n] \/ MixedAgain(n)

\* The initiator completes after the responder: when it starts to send media the
\* responder has its keys.  And when the responder is done the initiator has
\* derived the same keys: it may still give up, but never use other keys.  A
\* responder that has a Confirm2 of the negotiation before is done too soon.
InitiatorIsLast ==
  \A n \in Negotiation : \A e \in Endpoint : Completed(e, n) =>
    \/ Completed(Peer(e), n)
    \/ /\ results[e][n].initiator = Peer(e)
       /\ \/ neg[Peer(e)] = n /\ s0[Peer(e)] = results[e][n]
          \/ n \in mixed[e]
    \/ MixedAgain(n)

\* No endpoint parses a message it does not have.
NeverCrashes ==
  \A e \in Endpoint : phase[e] = "crashed" => MixedAgain(neg[e])

Ended(e) == phase[e] = "failed" \/ (phase[e] = "idle" /\ neg[e] = Len(Modes))

\* A responder has stored a Confirm2 that the peer made with the keys of an earlier
\* Diffie-Hellman negotiation, too late to be dropped and too early to be accepted.
SpinsOnConfirm2(e) ==
  /\ phase[e] = "conf1"
  /\ got[e]["Confirm2"].neg \in 1 .. neg[e] - 1
  /\ ~Confirmed(e, "Confirm2")

\* "Return RTP_TIMEOUT if remote did not send messages in timely manner"
\* (zrtp.hh:53): an endpoint is not stuck in a negotiation, whatever is lost, with one
\* exception: a responder of a later Diffie-Hellman negotiation that holds a Confirm2 of
\* an earlier one goes round its loop for ever (zrtp.cc:656-658, continue).
AlwaysReturns == ~patient => <>(\A e \in Endpoint : Ended(e) \/ SpinsOnConfirm2(e))

\* Endpoints that do not give up complete all negotiations although messages
\* are lost, because each is sent again until it is answered.  The answers
\* HelloACK and Conf2ACK are not: losing one of them may be final.
LossIsRepaired ==
  patient =>
    <>(\/ \A e \in Endpoint : phase[e] = "idle" /\ neg[e] = Len(Modes)
       \/ ackLost)
=============================================================================
