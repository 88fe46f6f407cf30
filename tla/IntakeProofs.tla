---------------------------- MODULE IntakeProofs ----------------------------
(***************************************************************************)
(* Proofs about CommandIntake, for every number of sessions, clients, keys *)
(* and versions, on top of what SessionsProofs proves of the lifecycle.    *)
(*                                                                         *)
(* Every step of the intake is a step of Sessions for the tables it shares *)
(* with the lifecycle, so Inv holds here as well. What is added: the types *)
(* of commands and calls, the account of versions (which is inductive with *)
(* Inv), the last event of a running session, and, for a caller that names *)
(* the version it saw, that the quote it carries is still the visible one  *)
(* as long as its version is the stored one.                               *)
(***************************************************************************)
EXTENDS CommandIntake, SessionsProofs

-----------------------------------------------------------------------------
(***************************************************************************)
(* Types                                                                   *)
(***************************************************************************)

IntakeTyped ==
    /\ commands \in SUBSET Command
    /\ calls \in [Client -> Call \cup {NoCall}]

\* A session with a pin event is pinned.
LEMMA PinMeansPinned ==
    ASSUME Inv, NEW s \in SessionId, PinIdx(domain_events[s]) # {}
    PROVE  sessions[s].status \notin Unpinned
<1>1. domain_events[s] # <<>>
  BY DEF PinIdx
<1> QED
  BY <1>1, ReadTyped

LEMMA SetupTyped ==
    ASSUME Inv, NEW s \in SessionId, sessions[s].status \notin Unpinned
    PROVE  /\ SetupOf(domain_events[s]) \in Setup
           /\ SetupOf(domain_events[s]).play_start \in Int
           /\ SetupOf(domain_events[s]).play_end \in Int
           /\ SetupOf(domain_events[s]).warmup \in Nat
           /\ FrontierOf(domain_events[s]) \in Int
<1>1. /\ SetupOf(domain_events[s]) \in Setup
      /\ FrontierOf(domain_events[s]) \in Int
  BY PinnedFacts DEF Inv, SessionOK, PinOK, WindowOK
<1> QED
  BY <1>1, SetupAssumption

\* What _prepare_order makes of a request is a canonical payload.
LEMMA PreparedTyped ==
    ASSUME Inv, NEW s \in SessionId, NEW p \in Principal, NEW body \in Body,
           NEW reference \in BOOLEAN, Resolvable(s, p, reference)
    PROVE  Prepare(s, body, reference) \in Prepared
<1> DEFINE u       == SetupOf(domain_events[s])
           through == VisibleThrough(s)
           visible == {q \in QuoteTimes : u.play_start - u.warmup <= q /\ q <= through}
<1>1. CASE reference = FALSE
  BY <1>1 DEF Prepare, Prepared
<1>2. CASE reference = TRUE
  <2>1. PinIdx(domain_events[s]) # {} /\ LastQuote(s, through) # NoQuote
    BY <1>2 DEF Resolvable, Readable
  <2>2. /\ u.play_start \in Int /\ u.play_end \in Int /\ u.warmup \in Nat
        /\ FrontierOf(domain_events[s]) \in Int
    BY <2>1, PinMeansPinned, SetupTyped
  <2>3. through \in Int
    BY <2>2 DEF VisibleThrough
  <2>4. LastQuote(s, through) = Max(visible) /\ visible # {}
    BY <2>1 DEF LastQuote
  <2> HIDE DEF u, through
  <2>5. /\ u.play_start - u.warmup \in Int
        /\ visible \in SUBSET (u.play_start - u.warmup .. through)
    <3>1. u.play_start - u.warmup \in Int
      BY <2>2
    <3>2. ASSUME NEW q \in visible
          PROVE  q \in u.play_start - u.warmup .. through
      <4>1. q \in Int
        BY IntakeAssumption
      <4> QED
        BY <2>3, <3>1, <4>1
    <3> QED
      BY <3>1, <3>2
  <2>6. Max(visible) \in visible
    <3> HIDE DEF visible
    <3> QED
      BY <2>3, <2>4, <2>5, MaxRange
  <2> QED
    BY <1>2, <2>4, <2>6 DEF Prepare, Prepared, through
<1> QED
  BY <1>1, <1>2

LEMMA RespondTyped ==
    ASSUME IntakeTyped, NEW c \in Client, calls[c] # NoCall,
           NEW answer \in Answer, NEW resulting \in Nat,
           Respond(c, answer, resulting)
    PROVE  /\ calls' \in [Client -> Call \cup {NoCall}]
           /\ calls' = [calls EXCEPT ![c] = [calls[c] EXCEPT !.answer = answer,
                                                            !.resulting = resulting]]
<1>1. calls[c] \in Call
  BY DEF IntakeTyped
<1>2. [calls[c] EXCEPT !.answer = answer, !.resulting = resulting] \in Call
  BY <1>1 DEF Call
<1>3. calls' = [calls EXCEPT ![c] = [calls[c] EXCEPT !.answer = answer,
                                                    !.resulting = resulting]]
  BY DEF Respond
<1> QED
  BY <1>2, <1>3 DEF IntakeTyped

\* A call in flight names a session, an owner and a natural version.
LEMMA CallTyped ==
    ASSUME IntakeTyped, NEW c \in Client, calls[c] # NoCall
    PROVE  /\ calls[c] \in Call /\ calls[c].session \in SessionId
           /\ calls[c].principal \in Principal /\ calls[c].expected \in Nat
           /\ calls[c].key \in Key /\ calls[c].payload \in Prepared
  BY DEF IntakeTyped, Call

\* The steps of the intake as the other tables see them.
LEMMA AcceptCases ==
    ASSUME NEW c \in Client, ClientStep(c)
    PROVE  \/ /\ UNCHANGED <<vars, commands>>
           \/ /\ calls[c] # NoCall /\ calls[c].answer = "PENDING"
              /\ AcceptNew(c)
  BY DEF ClientStep, Submit, Resend, Finish, Accept, AcceptReplay, AcceptConflict,
     AcceptReject

LEMMA IntakeIsNext ==
    ASSUME IntakeTyped, [IntakeNext]_allVars
    PROVE  [Next]_vars
<1>1. CASE LifecycleStep
  BY <1>1 DEF Next
<1>2. ASSUME NEW c \in Client, calls[c] # NoCall, AcceptNew(c)
      PROVE  Next
  <2>1. /\ calls[c].session \in SessionId /\ calls[c].principal \in Principal
        /\ AcceptCommand(calls[c].session, calls[c].principal, calls[c].expected)
        /\ calls[c].expected = sessions[calls[c].session].version
    BY <1>2, CallTyped DEF AcceptNew, AcceptCommand
  <2> QED
    BY <2>1 DEF Next
<1> QED
  BY <1>1, <1>2, AcceptCases DEF IntakeNext, allVars

LEMMA NextTyped ==
    ASSUME Inv, IntakeTyped, [IntakeNext]_allVars
    PROVE  IntakeTyped'
<1>1. CASE UNCHANGED intakeVars
  BY <1>1 DEF intakeVars, IntakeTyped
<1>2. ASSUME NEW c \in Client, NEW s \in SessionId, NEW p \in Principal,
             NEW key \in Key, NEW body \in Body, NEW reference \in BOOLEAN,
             NEW expected \in sessions[s].version .. sessions[s].version + ClientLead,
             Submit(c, s, p, key, expected, body, reference)
      PROVE  IntakeTyped'
  <2>1. Prepare(s, body, reference) \in Prepared
    BY <1>2, PreparedTyped DEF Submit
  <2>2. expected \in Nat
    BY ReadTyped, IntakeAssumption
  <2>3. [session |-> s, principal |-> p, key |-> key, expected |-> expected,
         payload |-> Prepare(s, body, reference), answer |-> "PENDING",
         resulting |-> 0, resends |-> 0] \in Call
    BY <2>1, <2>2, IntakeAssumption DEF Call, Answer
  <2> QED
    BY <1>2, <2>3 DEF Submit, IntakeTyped
<1>3. ASSUME NEW c \in Client, Resend(c)
      PROVE  IntakeTyped'
  <2> DEFINE call == calls[c]
             payload == Prepare(call.session, call.payload.body, call.payload.reference)
  <2>1. call # NoCall /\ call.resends < MaxResends
        /\ Resolvable(call.session, call.principal, call.payload.reference)
    BY <1>3 DEF Resend
  <2>2. /\ call \in Call /\ call.session \in SessionId /\ call.principal \in Principal
        /\ call.payload \in Prepared
    BY <2>1, CallTyped
  <2>3. payload \in Prepared
    BY <2>1, <2>2, PreparedTyped DEF Prepared
  <2>4. call.resends + 1 \in 0 .. MaxResends
    BY <2>1, <2>2, IntakeAssumption DEF Call
  <2>5. [call EXCEPT !.answer = "PENDING", !.resulting = 0, !.resends = @ + 1,
                     !.payload = payload] \in Call
    <3> HIDE DEF payload
    <3> QED
      BY <2>2, <2>3, <2>4 DEF Call, Answer
  <2> QED
    BY <1>3, <2>5 DEF Resend, IntakeTyped
<1>4. ASSUME NEW c \in Client, Finish(c)
      PROVE  IntakeTyped'
  BY <1>4 DEF Finish, IntakeTyped
<1>5. ASSUME NEW c \in Client, calls[c] # NoCall, AcceptNew(c)
      PROVE  IntakeTyped'
  <2>1. /\ calls[c].session \in SessionId /\ calls[c].expected \in Nat
        /\ calls[c].key \in Key /\ calls[c].payload \in Prepared
    BY <1>5, CallTyped
  <2>2. calls' \in [Client -> Call \cup {NoCall}]
    <3>1. Respond(c, "ACCEPTED", calls[c].expected + 1)
      BY <1>5 DEF AcceptNew
    <3>2. "ACCEPTED" \in Answer /\ calls[c].expected + 1 \in Nat
      BY <2>1 DEF Answer
    <3> HIDE DEF Answer
    <3> QED
      BY <1>5, <3>1, <3>2, RespondTyped
  <2>3. commands' \in SUBSET Command
    BY <1>5, <2>1 DEF AcceptNew, Command, IntakeTyped
  <2> QED
    BY <2>2, <2>3 DEF IntakeTyped
<1>6. ASSUME NEW c \in Client, calls[c] # NoCall,
             AcceptReplay(c) \/ AcceptConflict(c) \/ AcceptReject(c)
      PROVE  IntakeTyped'
  <2>1. commands' = commands
    BY <1>6 DEF AcceptReplay, AcceptConflict, AcceptReject
  <2>2. \A d \in commands : d.expected_session_version + 1 \in Nat
    BY DEF IntakeTyped, Command
  <2>3. \E answer \in Answer, resulting \in Nat : Respond(c, answer, resulting)
    BY <1>6, <2>2 DEF AcceptReplay, AcceptConflict, AcceptReject, Answer, Existing
  <2>4. calls' \in [Client -> Call \cup {NoCall}]
    BY <1>6, <2>3, RespondTyped
  <2> QED
    BY <2>1, <2>4 DEF IntakeTyped
<1> QED
  BY <1>1, <1>2, <1>3, <1>4, <1>5, <1>6 DEF IntakeNext, ClientStep, Accept, allVars

-----------------------------------------------------------------------------
(***************************************************************************)
(* The account of versions                                                 *)
(***************************************************************************)

\* What an acceptance writes: one command with the version it consumes.
Written(call) ==
    [session |-> call.session, key |-> call.key, payload |-> call.payload,
     expected_session_version |-> call.expected]

\* The two ways the shared tables change: a lifecycle step that leaves the
\* commands alone, or the acceptance of one call (or neither).
LEMMA IntakeCases ==
    ASSUME Inv, IntakeTyped, [IntakeNext]_allVars
    PROVE  \/ SpendsStep /\ commands' = commands
           \/ \E c \in Client : calls[c] # NoCall /\ calls[c].answer = "PENDING"
                               /\ AcceptNew(c)
<1>1. CASE LifecycleStep /\ UNCHANGED intakeVars
  BY <1>1, LifecycleSpends DEF intakeVars
<1>2. CASE UNCHANGED <<vars, commands>>
  BY <1>2, SameSpends DEF vars
<1> QED
  BY <1>1, <1>2, AcceptCases DEF IntakeNext, allVars, intakeVars

\* The row of the session an accepted call names.
LEMMA AcceptFacts ==
    ASSUME Inv, IntakeTyped, NEW c \in Client, calls[c] # NoCall, AcceptNew(c)
    PROVE  LET s == calls[c].session
           IN  /\ s \in SessionId
               /\ sessions[s].version = calls[c].expected
               /\ sessions[s].status = "RUNNING"
               /\ sessions'[s].version = sessions[s].version + 1
               /\ \A x \in SessionId : sessions'[x].status = sessions[x].status
               /\ \A x \in SessionId \ {s} : sessions'[x] = sessions[x]
               /\ domain_events' = domain_events
               /\ commands' = commands \cup {Written(calls[c])}
               /\ Existing(calls[c]) = {}
<1> DEFINE s == calls[c].session
           n == calls[c].expected
<1>1. s \in SessionId
  BY CallTyped
<1>2. /\ sessions[s].version = n
      /\ sessions[s].status = "RUNNING"
      /\ sessions' = [sessions EXCEPT ![s].version = n + 1]
      /\ domain_events' = domain_events
      /\ Existing(calls[c]) = {}
  BY DEF AcceptNew, AcceptCommand
<1>3. commands' = commands \cup {Written(calls[c])}
  BY DEF AcceptNew, Written
<1>4. sessions \in [SessionId -> Row]
  BY DEF Inv, TypeOK
<1> HIDE DEF s, n
<1>5. /\ sessions'[s].version = n + 1
      /\ \A x \in SessionId : sessions'[x].status = sessions[x].status
      /\ \A x \in SessionId \ {s} : sessions'[x] = sessions[x]
  BY <1>1, <1>2, <1>4 DEF Row
<1> QED
  BY <1>1, <1>2, <1>3, <1>5 DEF s, n

LEMMA CommandsTyped ==
    ASSUME IntakeTyped, NEW d \in commands
    PROVE  /\ d \in Command /\ d.expected_session_version \in Nat
           /\ d.session \in SessionId /\ d.key \in Key /\ d.payload \in Prepared
  BY DEF IntakeTyped, Command

LEMMA EventsSpent ==
    ASSUME Inv, NEW s \in SessionId, NEW e \in Event,
           domain_events'[s] = Append(domain_events[s], e)
    PROVE  EventVersions(s)' = EventVersions(s) \cup {e.cause}
<1>1. domain_events[s] \in Seq(Event)
  BY ReadTyped
<1>2. /\ Len(domain_events[s]) \in Nat
      /\ DOMAIN domain_events[s] = 1 .. Len(domain_events[s])
      /\ DOMAIN domain_events'[s] = 1 .. Len(domain_events[s]) + 1
      /\ domain_events'[s][Len(domain_events[s]) + 1] = e
      /\ \A i \in 1 .. Len(domain_events[s]) : domain_events'[s][i] = domain_events[s][i]
  BY <1>1, AppendFacts
<1>3. 1 .. Len(domain_events[s]) + 1
         = (1 .. Len(domain_events[s])) \cup {Len(domain_events[s]) + 1}
  BY <1>2
<1> QED
  BY <1>2, <1>3 DEF EventVersions

\* A command names a version that its session has spent.
LEMMA CommandsBehind ==
    ASSUME IntakeTyped, VersionsPartitioned, Inv, NEW d \in commands
    PROVE  /\ d.expected_session_version \in Nat
           /\ d.expected_session_version + 1 <= sessions[d.session].version
<1>1. d.expected_session_version \in Nat /\ d.session \in SessionId
  BY CommandsTyped
<1>2. d.expected_session_version + 1 \in CommandVersions(d.session)
  BY DEF CommandVersions
<1>3. d.expected_session_version + 1 \in 1 .. sessions[d.session].version
  BY <1>1, <1>2 DEF VersionsPartitioned
<1> QED
  BY <1>1, <1>3

LEMMA NextAccounted ==
    ASSUME Inv, IntakeTyped, VersionsPartitioned, [IntakeNext]_allVars
    PROVE  VersionsPartitioned'
<1>1. CASE SpendsStep /\ commands' = commands
  <2> SUFFICES ASSUME NEW s \in SessionId
               PROVE  /\ CommandVersions(s)' \cup EventVersions(s)' = 1..sessions'[s].version
                      /\ CommandVersions(s)' \cap EventVersions(s)' = {}
    BY <1>1 DEF VersionsPartitioned
  <2>1. CommandVersions(s)' = CommandVersions(s) /\ sessions[s].version \in Nat
    BY <1>1, ReadTyped DEF CommandVersions
  <2>2. /\ CommandVersions(s) \cup EventVersions(s) = 1..sessions[s].version
        /\ CommandVersions(s) \cap EventVersions(s) = {}
    BY DEF VersionsPartitioned
  <2>3. CASE sessions'[s].version = sessions[s].version /\ domain_events'[s] = domain_events[s]
    <3>1. EventVersions(s)' = EventVersions(s)
      BY <2>3 DEF EventVersions
    <3> QED
      BY <2>1, <2>2, <2>3, <3>1
  <2>4. ASSUME NEW e \in Event, domain_events'[s] = Append(domain_events[s], e),
               sessions'[s].version = sessions[s].version + 1,
               e.cause = sessions[s].version + 1
        PROVE  /\ CommandVersions(s)' \cup EventVersions(s)' = 1..sessions'[s].version
               /\ CommandVersions(s)' \cap EventVersions(s)' = {}
    <3> DEFINE n == sessions[s].version
    <3>1. EventVersions(s)' = EventVersions(s) \cup {n + 1}
      BY <2>4, EventsSpent
    <3>2. 1 .. n + 1 = (1 .. n) \cup {n + 1} /\ n + 1 \notin 1 .. n
      BY <2>1
    <3> HIDE DEF n
    <3> QED
      BY <2>1, <2>2, <2>4, <3>1, <3>2 DEF n
  <2> QED
    BY <1>1, <2>3, <2>4 DEF SpendsStep, Spends
<1>2. ASSUME NEW c \in Client, calls[c] # NoCall, AcceptNew(c)
      PROVE  VersionsPartitioned'
  <2> PICK s : s = calls[c].session
    OBVIOUS
  <2> PICK n : n = sessions[s].version
    OBVIOUS
  <2> PICK w : w = Written(calls[c])
    OBVIOUS
  <2>1. /\ s \in SessionId /\ n = calls[c].expected
        /\ sessions'[s].version = n + 1
        /\ \A x \in SessionId \ {s} : sessions'[x] = sessions[x]
        /\ domain_events' = domain_events
        /\ commands' = commands \cup {w}
    BY <1>2, AcceptFacts
  <2>2. w.session = s /\ w.expected_session_version = n /\ n \in Nat
    BY <2>1, ReadTyped DEF Written
  <2>3. \A x \in SessionId : EventVersions(x)' = EventVersions(x)
    BY <2>1 DEF EventVersions
  <2>4. CommandVersions(s)' = CommandVersions(s) \cup {n + 1}
    BY <2>1, <2>2 DEF CommandVersions
  <2>5. \A x \in SessionId \ {s} : CommandVersions(x)' = CommandVersions(x)
    BY <2>1, <2>2 DEF CommandVersions
  <2>6. 1 .. n + 1 = (1 .. n) \cup {n + 1} /\ n + 1 \notin 1 .. n
    BY <2>2
  <2>7. ASSUME NEW x \in SessionId
        PROVE  /\ CommandVersions(x)' \cup EventVersions(x)' = 1..sessions'[x].version
               /\ CommandVersions(x)' \cap EventVersions(x)' = {}
    <3>1. /\ CommandVersions(x) \cup EventVersions(x) = 1..sessions[x].version
          /\ CommandVersions(x) \cap EventVersions(x) = {}
      BY DEF VersionsPartitioned
    <3>2. CASE x = s
      <4>1. /\ CommandVersions(x)' = CommandVersions(x) \cup {n + 1}
            /\ EventVersions(x)' = EventVersions(x)
        BY <2>3, <2>4, <3>2
      <4>2. sessions[x].version = n /\ sessions'[x].version = n + 1
        BY <2>1, <3>2
      <4>3. /\ CommandVersions(x)' \cup EventVersions(x)' = 1 .. n + 1
            /\ CommandVersions(x)' \cap EventVersions(x)' = {}
        BY <2>6, <3>1, <4>1, <4>2
      <4> QED
        BY <4>2, <4>3
    <3>3. CASE x # s
      BY <2>1, <2>3, <2>5, <3>1, <3>3
    <3> QED
      BY <3>2, <3>3
  <2>8. ASSUME NEW x \in SessionId, NEW d \in commands', NEW f \in commands',
               d.session = x, f.session = x,
               d.expected_session_version = f.expected_session_version
        PROVE  d = f
    <3>1. ASSUME NEW g \in commands, g.session = s
          PROVE  g.expected_session_version # n
      <4>1. /\ g.expected_session_version \in Nat
            /\ g.expected_session_version + 1 <= n
        BY <3>1, CommandsBehind
      <4> QED
        BY <2>2, <4>1
    <3>2. CASE d \in commands /\ f \in commands
      BY <2>8, <3>2 DEF VersionsPartitioned
    <3> QED
      BY <2>1, <2>2, <2>8, <3>1, <3>2
  <2> QED
    BY <2>7, <2>8 DEF VersionsPartitioned
<1> QED
  BY <1>1, <1>2, IntakeCases

-----------------------------------------------------------------------------
(***************************************************************************)
(* Retries                                                                 *)
(***************************************************************************)

\* AnswersStored for one call.
AnswerOK(call, table) ==
    call # NoCall /\ call.answer \in {"ACCEPTED", "REPLAYED"} =>
        \E d \in table : /\ d.session = call.session /\ d.key = call.key
                        /\ d.payload = call.payload
                        /\ call.resulting = d.expected_session_version + 1

LEMMA AnswersOK ==
    /\ AnswersStored <=> \A c \in Client : AnswerOK(calls[c], commands)
    /\ AnswersStored' <=> \A c \in Client : AnswerOK(calls'[c], commands')
  BY DEF AnswersStored, AnswerOK, Answered, Existing

\* An answer stays true while the table grows and other calls change.
LEMMA OneAnswer ==
    ASSUME IntakeTyped, AnswersStored, NEW c \in Client, NEW call,
           calls' = [calls EXCEPT ![c] = call],
           commands \subseteq commands', AnswerOK(call, commands')
    PROVE  AnswersStored'
<1>1. ASSUME NEW x \in Client PROVE AnswerOK(calls'[x], commands')
  <2>1. CASE x = c
    BY <2>1 DEF IntakeTyped
  <2>2. CASE x # c
    <3>1. calls'[x] = calls[x] /\ AnswerOK(calls[x], commands)
      BY <2>2, AnswersOK DEF IntakeTyped
    <3> QED
      BY <3>1 DEF AnswerOK
  <2> QED
    BY <2>1, <2>2
<1> QED
  BY <1>1, AnswersOK

\* The call as the answer leaves it.
LEMMA RespondFields ==
    ASSUME IntakeTyped, NEW c \in Client, calls[c] # NoCall,
           NEW answer \in Answer, NEW resulting \in Nat,
           Respond(c, answer, resulting)
    PROVE  \E call : /\ calls' = [calls EXCEPT ![c] = call]
                     /\ call.session = calls[c].session /\ call.key = calls[c].key
                     /\ call.payload = calls[c].payload
                     /\ call.expected = calls[c].expected
                     /\ call.answer = answer /\ call.resulting = resulting
<1> DEFINE call == [calls[c] EXCEPT !.answer = answer, !.resulting = resulting]
<1>1. calls' = [calls EXCEPT ![c] = call]
  BY DEF Respond
<1>2. calls[c] \in Call
  BY CallTyped
<1>3. /\ call.session = calls[c].session /\ call.key = calls[c].key
      /\ call.payload = calls[c].payload /\ call.expected = calls[c].expected
      /\ call.answer = answer /\ call.resulting = resulting
  BY <1>2 DEF Call
<1> QED
  BY <1>1, <1>3

\* The part of RetriesExact about what is stored.
StoredOnce == OneCommandPerKey /\ AnswersStored

LEMMA NextStored ==
    ASSUME Inv, IntakeTyped, StoredOnce, [IntakeNext]_allVars
    PROVE  StoredOnce'
<1> USE DEF StoredOnce
<1>1. ASSUME NEW c \in Client, calls[c] # NoCall, AcceptNew(c)
      PROVE  StoredOnce'
  <2> DEFINE w == Written(calls[c])
  <2>1. commands' = commands \cup {w} /\ Existing(calls[c]) = {}
    BY <1>1, AcceptFacts
  <2>2. /\ w.session = calls[c].session /\ w.key = calls[c].key
        /\ w.payload = calls[c].payload
        /\ w.expected_session_version = calls[c].expected
    BY DEF Written
  <2> HIDE DEF w
  <2>3. OneCommandPerKey'
    BY <2>1, <2>2 DEF OneCommandPerKey, Existing
  <2>4. /\ Respond(c, "ACCEPTED", calls[c].expected + 1)
        /\ "ACCEPTED" \in Answer /\ calls[c].expected + 1 \in Nat
    BY <1>1, CallTyped DEF AcceptNew, Answer
  <2>5. PICK call : /\ calls' = [calls EXCEPT ![c] = call]
                    /\ call.session = calls[c].session /\ call.key = calls[c].key
                    /\ call.payload = calls[c].payload
                    /\ call.resulting = calls[c].expected + 1
    BY <1>1, <2>4, RespondFields
  <2>6. AnswerOK(call, commands')
    BY <2>1, <2>2, <2>5 DEF AnswerOK
  <2> QED
    BY <2>1, <2>3, <2>5, <2>6, OneAnswer
<1>2. ASSUME NEW c \in Client, calls[c] # NoCall, AcceptReplay(c)
      PROVE  StoredOnce'
  <2>1. PICK d \in commands :
           /\ d.session = calls[c].session /\ d.key = calls[c].key
           /\ d.payload = calls[c].payload
           /\ Respond(c, "REPLAYED", d.expected_session_version + 1)
    BY <1>2 DEF AcceptReplay, Existing, SamePayload
  <2>2. commands' = commands /\ "REPLAYED" \in Answer
        /\ d.expected_session_version + 1 \in Nat
    BY <1>2, CommandsTyped DEF AcceptReplay, Answer
  <2>3. PICK call : /\ calls' = [calls EXCEPT ![c] = call]
                    /\ call.session = calls[c].session /\ call.key = calls[c].key
                    /\ call.payload = calls[c].payload
                    /\ call.resulting = d.expected_session_version + 1
    BY <1>2, <2>1, <2>2, RespondFields
  <2>4. AnswerOK(call, commands')
    BY <2>1, <2>2, <2>3 DEF AnswerOK
  <2> QED
    BY <2>2, <2>3, <2>4, OneAnswer DEF OneCommandPerKey
<1>3. ASSUME NEW c \in Client, NEW call, calls' = [calls EXCEPT ![c] = call],
             call = NoCall \/ call.answer \notin {"ACCEPTED", "REPLAYED"},
             commands' = commands
      PROVE  StoredOnce'
  BY <1>3, OneAnswer DEF AnswerOK, OneCommandPerKey
<1>4. ASSUME NEW c \in Client, calls[c] # NoCall, AcceptConflict(c) \/ AcceptReject(c)
      PROVE  StoredOnce'
  <2>1. PICK answer \in {"IDEMPOTENCY_CONFLICT", "REJECTED"} : Respond(c, answer, 0)
    BY <1>4 DEF AcceptConflict, AcceptReject
  <2>2. answer \in Answer /\ commands' = commands
    BY <1>4 DEF Answer, AcceptConflict, AcceptReject
  <2>3. PICK call : calls' = [calls EXCEPT ![c] = call] /\ call.answer = answer
    BY <1>4, <2>1, <2>2, RespondFields
  <2> QED
    BY <1>3, <2>1, <2>2, <2>3
<1>5. ASSUME NEW c \in Client, NEW s \in SessionId, NEW p \in Principal,
             NEW key \in Key, NEW expected, NEW body \in Body,
             NEW reference \in BOOLEAN, Submit(c, s, p, key, expected, body, reference)
      PROVE  StoredOnce'
  <2> DEFINE call == [session |-> s, principal |-> p, key |-> key, expected |-> expected,
                      payload |-> Prepare(s, body, reference), answer |-> "PENDING",
                      resulting |-> 0, resends |-> 0]
  <2>1. calls' = [calls EXCEPT ![c] = call] /\ commands' = commands
        /\ call.answer = "PENDING"
    BY <1>5 DEF Submit
  <2> HIDE DEF call
  <2> QED
    BY <1>3, <2>1
<1>6. ASSUME NEW c \in Client, Resend(c)
      PROVE  StoredOnce'
  <2> DEFINE call == [calls[c] EXCEPT !.answer = "PENDING", !.resulting = 0,
                        !.resends = @ + 1,
                        !.payload = Prepare(calls[c].session, calls[c].payload.body,
                                            calls[c].payload.reference)]
  <2>1. calls' = [calls EXCEPT ![c] = call] /\ commands' = commands /\ calls[c] # NoCall
    BY <1>6 DEF Resend
  <2>2. calls[c] \in Call
    BY <2>1, CallTyped
  <2>3. call.answer = "PENDING"
    BY <2>2 DEF Call
  <2> HIDE DEF call
  <2> QED
    BY <1>3, <2>1, <2>3
<1>7. ASSUME NEW c \in Client, Finish(c)
      PROVE  StoredOnce'
  BY <1>3, <1>7 DEF Finish
<1>8. CASE UNCHANGED intakeVars
  BY <1>8, AnswersOK DEF intakeVars, OneCommandPerKey
<1> QED
  BY <1>1, <1>2, <1>4, <1>5, <1>6, <1>7, <1>8
  DEF IntakeNext, ClientStep, Accept, allVars

\* Only a payload with a price reference names a quote.
Plain(payload) == ~payload.reference => payload.quote = NoQuote

PayloadsPlain ==
    /\ \A d \in commands : Plain(d.payload)
    /\ \A c \in Client : calls[c] # NoCall => Plain(calls[c].payload)

LEMMA PreparePlain ==
    ASSUME NEW s, NEW body, NEW reference \in BOOLEAN
    PROVE  Plain(Prepare(s, body, reference))
  BY DEF Plain, Prepare

\* A call that is told of a conflict, and the command that it is about.
ConflictOf(call, table) ==
    call # NoCall /\ call.answer = "IDEMPOTENCY_CONFLICT" =>
        \E d \in table : /\ d.session = call.session /\ d.key = call.key
                        /\ d.payload # call.payload

ConflictsNamed == \A c \in Client : ConflictOf(calls[c], commands)

\* Every step changes one call at most.
LEMMA CallSteps ==
    ASSUME Inv, IntakeTyped, PayloadsPlain, [IntakeNext]_allVars
    PROVE  \/ calls' = calls /\ commands' = commands
           \/ \E c \in Client : \E call :
                /\ calls' = [calls EXCEPT ![c] = call]
                /\ call # NoCall => Plain(call.payload)
                /\ ConflictOf(call, commands)
                /\ \/ commands' = commands
                   \/ calls[c] # NoCall /\ commands' = commands \cup {Written(calls[c])}
<1> DEFINE Goal == \E c \in Client : \E call :
                /\ calls' = [calls EXCEPT ![c] = call]
                /\ call # NoCall => Plain(call.payload)
                /\ ConflictOf(call, commands)
                /\ \/ commands' = commands
                   \/ calls[c] # NoCall /\ commands' = commands \cup {Written(calls[c])}
<1>1. ASSUME NEW c \in Client, calls[c] # NoCall, AcceptNew(c)
      PROVE  Goal
  <2>1. commands' = commands \cup {Written(calls[c])}
    BY <1>1, AcceptFacts
  <2>2. /\ Respond(c, "ACCEPTED", calls[c].expected + 1)
        /\ "ACCEPTED" \in Answer /\ calls[c].expected + 1 \in Nat
    BY <1>1, CallTyped DEF AcceptNew, Answer
  <2>3. PICK call : /\ calls' = [calls EXCEPT ![c] = call]
                    /\ call.payload = calls[c].payload /\ call.answer = "ACCEPTED"
    BY <1>1, <2>2, RespondFields
  <2>4. Plain(call.payload) /\ ConflictOf(call, commands)
    BY <1>1, <2>3 DEF PayloadsPlain, ConflictOf
  <2> QED
    BY <1>1, <2>1, <2>3, <2>4
<1>2. ASSUME NEW c \in Client, calls[c] # NoCall, AcceptReplay(c)
      PROVE  Goal
  <2>1. PICK d \in commands : Respond(c, "REPLAYED", d.expected_session_version + 1)
    BY <1>2 DEF AcceptReplay, Existing
  <2>2. /\ commands' = commands /\ "REPLAYED" \in Answer
        /\ d.expected_session_version + 1 \in Nat
    BY <1>2, CommandsTyped DEF AcceptReplay, Answer
  <2>3. PICK call : /\ calls' = [calls EXCEPT ![c] = call]
                    /\ call.payload = calls[c].payload /\ call.answer = "REPLAYED"
    BY <1>2, <2>1, <2>2, RespondFields
  <2>4. Plain(call.payload) /\ ConflictOf(call, commands)
    BY <1>2, <2>3 DEF PayloadsPlain, ConflictOf
  <2> QED
    BY <2>2, <2>3, <2>4
<1>3. ASSUME NEW c \in Client, calls[c] # NoCall, AcceptConflict(c)
      PROVE  Goal
  <2>1. PICK d \in commands : /\ d.session = calls[c].session /\ d.key = calls[c].key
                              /\ d.payload # calls[c].payload
    BY <1>3 DEF AcceptConflict, Existing, SamePayload
  <2>2. /\ commands' = commands /\ "IDEMPOTENCY_CONFLICT" \in Answer /\ 0 \in Nat
        /\ Respond(c, "IDEMPOTENCY_CONFLICT", 0)
    BY <1>3 DEF AcceptConflict, Answer
  <2>3. PICK call : /\ calls' = [calls EXCEPT ![c] = call]
                    /\ call.session = calls[c].session /\ call.key = calls[c].key
                    /\ call.payload = calls[c].payload
    BY <1>3, <2>2, RespondFields
  <2>4. Plain(call.payload) /\ ConflictOf(call, commands)
    BY <1>3, <2>1, <2>3 DEF PayloadsPlain, ConflictOf
  <2> QED
    BY <2>2, <2>3, <2>4
<1>4. ASSUME NEW c \in Client, calls[c] # NoCall, AcceptReject(c)
      PROVE  Goal
  <2>1. /\ commands' = commands /\ "REJECTED" \in Answer /\ 0 \in Nat
        /\ Respond(c, "REJECTED", 0)
    BY <1>4 DEF AcceptReject, Answer
  <2>2. PICK call : /\ calls' = [calls EXCEPT ![c] = call]
                    /\ call.payload = calls[c].payload /\ call.answer = "REJECTED"
    BY <1>4, <2>1, RespondFields
  <2>3. Plain(call.payload) /\ ConflictOf(call, commands)
    BY <1>4, <2>2 DEF PayloadsPlain, ConflictOf
  <2> QED
    BY <2>1, <2>2, <2>3
<1>5. ASSUME NEW c \in Client, NEW s \in SessionId, NEW p \in Principal,
             NEW key \in Key, NEW expected, NEW body \in Body,
             NEW reference \in BOOLEAN, Submit(c, s, p, key, expected, body, reference)
      PROVE  Goal
  <2> DEFINE call == [session |-> s, principal |-> p, key |-> key, expected |-> expected,
                      payload |-> Prepare(s, body, reference), answer |-> "PENDING",
                      resulting |-> 0, resends |-> 0]
  <2>1. calls' = [calls EXCEPT ![c] = call] /\ commands' = commands
        /\ call.answer = "PENDING" /\ call.payload = Prepare(s, body, reference)
    BY <1>5 DEF Submit
  <2> HIDE DEF call
  <2>2. Plain(call.payload) /\ ConflictOf(call, commands)
    BY <2>1, PreparePlain DEF ConflictOf
  <2> QED
    BY <2>1, <2>2
<1>6. ASSUME NEW c \in Client, Resend(c)
      PROVE  Goal
  <2> DEFINE again == Prepare(calls[c].session, calls[c].payload.body,
                              calls[c].payload.reference)
             call == [calls[c] EXCEPT !.answer = "PENDING", !.resulting = 0,
                        !.resends = @ + 1, !.payload = again]
  <2>1. calls' = [calls EXCEPT ![c] = call] /\ commands' = commands /\ calls[c] # NoCall
    BY <1>6 DEF Resend
  <2>2. calls[c] \in Call /\ calls[c].payload.reference \in BOOLEAN
    BY <2>1, CallTyped DEF Prepared
  <2>3. Plain(again)
    BY <2>2, PreparePlain
  <2>4. call.answer = "PENDING" /\ call.payload = again
    <3> HIDE DEF again
    <3> QED
      BY <2>2 DEF Call
  <2> HIDE DEF call, again
  <2>5. Plain(call.payload) /\ ConflictOf(call, commands)
    BY <2>3, <2>4 DEF ConflictOf
  <2> QED
    BY <2>1, <2>5
<1>7. ASSUME NEW c \in Client, Finish(c)
      PROVE  Goal
  BY <1>7 DEF Finish, ConflictOf
<1> HIDE DEF Goal
<1>8. CASE UNCHANGED intakeVars
  BY <1>8 DEF intakeVars
<1>9. Goal \/ UNCHANGED intakeVars
  BY <1>1, <1>2, <1>3, <1>4, <1>5, <1>6, <1>7
  DEF IntakeNext, ClientStep, Accept, allVars
<1> QED
  BY <1>8, <1>9 DEF Goal

LEMMA NextConflicts ==
    ASSUME Inv, IntakeTyped, PayloadsPlain, ConflictsNamed, [IntakeNext]_allVars
    PROVE  PayloadsPlain' /\ ConflictsNamed'
<1>1. CASE calls' = calls /\ commands' = commands
  BY <1>1 DEF PayloadsPlain, ConflictsNamed
<1>2. ASSUME NEW c \in Client, NEW call, calls' = [calls EXCEPT ![c] = call],
             call # NoCall => Plain(call.payload), ConflictOf(call, commands),
             \/ commands' = commands
             \/ calls[c] # NoCall /\ commands' = commands \cup {Written(calls[c])}
      PROVE  PayloadsPlain' /\ ConflictsNamed'
  <2>1. \A d \in commands' : Plain(d.payload)
    BY <1>2 DEF PayloadsPlain, Written
  <2>2. commands \subseteq commands'
    BY <1>2
  <2>3. ASSUME NEW x \in Client
        PROVE  /\ calls'[x] # NoCall => Plain(calls'[x].payload)
               /\ ConflictOf(calls'[x], commands')
    <3>1. calls'[x] = IF x = c THEN call ELSE calls[x]
      BY <1>2 DEF IntakeTyped
    <3>2. /\ calls'[x] # NoCall => Plain(calls'[x].payload)
          /\ ConflictOf(calls'[x], commands)
      BY <1>2, <3>1 DEF PayloadsPlain, ConflictsNamed
    <3> QED
      BY <2>2, <3>2 DEF ConflictOf
  <2> QED
    BY <2>1, <2>3 DEF PayloadsPlain, ConflictsNamed
<1> QED
  BY <1>1, <1>2, CallSteps

\* A conflicting payload that repeats the client's words differs by its quote.
LEMMA ConflictsMean ==
    ASSUME IntakeTyped, PayloadsPlain, ConflictsNamed
    PROVE  ConflictsExplained
<1> SUFFICES ASSUME NEW c \in Client, calls[c] # NoCall,
                    calls[c].answer = "IDEMPOTENCY_CONFLICT"
             PROVE  \E d \in Existing(calls[c]) :
                       SameRequest(d, calls[c]) =>
                         d.payload.reference /\ d.payload.quote # calls[c].payload.quote
  BY DEF ConflictsExplained, Answered
<1>1. PICK d \in commands : /\ d.session = calls[c].session /\ d.key = calls[c].key
                            /\ d.payload # calls[c].payload
  BY DEF ConflictsNamed, ConflictOf
<1>2. d \in Existing(calls[c])
  BY <1>1 DEF Existing
<1> PICK p, q : p = d.payload /\ q = calls[c].payload
  OBVIOUS
<1>3. p \in Prepared /\ q \in Prepared /\ Plain(p) /\ Plain(q) /\ p # q
  BY <1>1, CommandsTyped, CallTyped DEF PayloadsPlain
<1>4. p.body = q.body /\ p.reference = q.reference => p.quote # q.quote
  BY <1>3 DEF Prepared
<1>5. p.body = q.body /\ p.reference = q.reference => p.reference
  BY <1>3, <1>4 DEF Plain
<1> QED
  BY <1>2, <1>4, <1>5 DEF SameRequest

-----------------------------------------------------------------------------
(***************************************************************************)
(* The context of an accepted command                                      *)
(***************************************************************************)

\* The last event of a running session started it or moved its clock.
RunningOK ==
    \A s \in SessionId : sessions[s].status = "RUNNING" =>
        domain_events[s][Len(domain_events[s])].event_type \in RunTypes

\* AcceptedWhileRunning for one command, with the event it means.
RanAt(log, v) ==
    \E k \in DOMAIN log : /\ log[k].cause <= v
                          /\ log[k].event_type \in RunTypes
                          /\ \A j \in DOMAIN log : log[j].cause <= v => k >= j

RanWhenAccepted ==
    \A d \in commands : RanAt(domain_events[d.session], d.expected_session_version)

LEMMA RanMeans == Inv /\ IntakeTyped /\ RanWhenAccepted => AcceptedWhileRunning
<1> SUFFICES ASSUME Inv, IntakeTyped, RanWhenAccepted, NEW d \in commands
             PROVE  LET log == domain_events[d.session]
                    IN  /\ EventsUpTo(log, d.expected_session_version) # {}
                        /\ TypeAt(log, d.expected_session_version)
                              \in {"SESSION_STARTED", "SESSION_ADVANCED"}
  BY DEF AcceptedWhileRunning
<1> DEFINE log == domain_events[d.session]
           v   == d.expected_session_version
<1>1. PICK k \in DOMAIN log : /\ log[k].cause <= v
                              /\ log[k].event_type \in RunTypes
                              /\ \A j \in DOMAIN log : log[j].cause <= v => k >= j
  BY DEF RanWhenAccepted, RanAt
<1>2. k \in EventsUpTo(log, v) /\ \A j \in EventsUpTo(log, v) : k >= j
  BY <1>1 DEF EventsUpTo
<1>4. EventsUpTo(log, v) \in SUBSET Int
  <2>1. log \in Seq(Event)
    BY CommandsTyped, ReadTyped
  <2> QED
    BY <2>1 DEF EventsUpTo
<1> HIDE DEF log, v
<1>3. Max(EventsUpTo(log, v)) = k
  BY <1>2, <1>4, MaxIs
<1> QED
  BY <1>1, <1>2, <1>3 DEF TypeAt, RunTypes, log, v

LEMMA RanKept ==
    ASSUME NEW log \in Seq(Event), NEW e \in Event, NEW v \in Nat, NEW n \in Nat,
           v <= n, e.cause = n + 1, RanAt(log, v)
    PROVE  RanAt(Append(log, e), v)
<1> DEFINE new == Append(log, e)
<1>1. PICK k \in DOMAIN log : /\ log[k].cause <= v
                              /\ log[k].event_type \in RunTypes
                              /\ \A j \in DOMAIN log : log[j].cause <= v => k >= j
  BY DEF RanAt
<1>2. /\ Len(log) \in Nat /\ DOMAIN log = 1 .. Len(log) /\ DOMAIN new = 1 .. Len(log) + 1
      /\ new[Len(log) + 1] = e
      /\ \A i \in 1 .. Len(log) : new[i] = log[i]
  BY AppendFacts
<1> HIDE DEF new
<1>3. ASSUME NEW j \in DOMAIN new, new[j].cause <= v
      PROVE  k >= j
  <2>1. j # Len(log) + 1
    BY <1>2, <1>3
  <2> QED
    BY <1>1, <1>2, <1>3, <2>1
<1>4. k \in DOMAIN new /\ new[k] = log[k]
  BY <1>2
<1> QED
  BY <1>1, <1>3, <1>4 DEF RanAt, new

LEMMA NextRunning ==
    ASSUME Inv, Inv', IntakeTyped, RunningOK, [IntakeNext]_allVars
    PROVE  RunningOK'
<1>1. CASE SpendsStep
  <2> SUFFICES ASSUME NEW s \in SessionId, sessions'[s].status = "RUNNING"
               PROVE  domain_events'[s][Len(domain_events'[s])].event_type \in RunTypes
    BY DEF RunningOK
  <2>1. CASE domain_events'[s] = domain_events[s] /\ sessions[s].status = "RUNNING"
    BY <2>1 DEF RunningOK
  <2>2. ASSUME NEW e \in Event, domain_events'[s] = Append(domain_events[s], e),
               e.event_type \in RunTypes
        PROVE  domain_events'[s][Len(domain_events'[s])].event_type \in RunTypes
    <3>1. domain_events[s] \in Seq(Event)
      BY ReadTyped
    <3> QED
      BY <2>2, <3>1, AppendFacts
  <2> QED
    BY <1>1, <2>1, <2>2 DEF SpendsStep, Spends
<1>2. ASSUME NEW c \in Client, calls[c] # NoCall, AcceptNew(c)
      PROVE  RunningOK'
  BY <1>2, AcceptFacts DEF RunningOK
<1> QED
  BY <1>1, <1>2, IntakeCases

LEMMA NextRan ==
    ASSUME Inv, Inv', IntakeTyped, VersionsPartitioned, RunningOK, RanWhenAccepted,
           [IntakeNext]_allVars
    PROVE  RanWhenAccepted'
<1>1. CASE SpendsStep /\ commands' = commands
  <2> SUFFICES ASSUME NEW d \in commands
               PROVE  RanAt(domain_events'[d.session], d.expected_session_version)
    BY <1>1 DEF RanWhenAccepted
  <2>1. /\ d.session \in SessionId /\ d.expected_session_version \in Nat
        /\ d.expected_session_version + 1 <= sessions[d.session].version
        /\ RanAt(domain_events[d.session], d.expected_session_version)
    BY CommandsTyped, CommandsBehind DEF RanWhenAccepted
  <2>2. domain_events[d.session] \in Seq(Event) /\ sessions[d.session].version \in Nat
    BY <2>1, ReadTyped
  <2>3. d.expected_session_version <= sessions[d.session].version
    BY <2>1, <2>2
  <2>4. CASE domain_events'[d.session] = domain_events[d.session]
    BY <2>1, <2>4
  <2>5. ASSUME NEW e \in Event, e.cause = sessions[d.session].version + 1,
               domain_events'[d.session] = Append(domain_events[d.session], e)
        PROVE  RanAt(domain_events'[d.session], d.expected_session_version)
    BY <2>1, <2>2, <2>3, <2>5, RanKept
  <2> QED
    BY <1>1, <2>1, <2>4, <2>5 DEF SpendsStep, Spends
<1>2. ASSUME NEW c \in Client, calls[c] # NoCall, AcceptNew(c)
      PROVE  RanWhenAccepted'
  <2> DEFINE s   == calls[c].session
             log == domain_events[s]
             n   == sessions[s].version
  <2>1. /\ s \in SessionId /\ n = calls[c].expected
        /\ sessions[s].status = "RUNNING"
        /\ domain_events' = domain_events
        /\ commands' = commands \cup {Written(calls[c])}
    BY <1>2, AcceptFacts
  <2>2. /\ log \in Seq(Event) /\ Len(log) > 0 /\ CausesOK(n, log)
        /\ log[Len(log)].event_type \in RunTypes
    BY <2>1, ReadTyped DEF Inv, SessionOK, PinOK, RunningOK, Unpinned
  <2>3. Len(log) \in DOMAIN log /\ DOMAIN log = 1 .. Len(log) /\ Len(log) \in Nat
    <3> HIDE DEF log
    <3> QED
      BY <2>2
  <2>4. RanAt(log, n)
    <3> HIDE DEF log, n
    <3>1. log[Len(log)].cause <= n
      BY <2>2, <2>3 DEF CausesOK
    <3>2. \A j \in DOMAIN log : Len(log) >= j
      BY <2>3
    <3> QED
      BY <2>2, <2>3, <3>1, <3>2 DEF RanAt
  <2>5. /\ Written(calls[c]).session = s
        /\ Written(calls[c]).expected_session_version = n
    BY <2>1 DEF Written
  <2> QED
    BY <2>1, <2>4, <2>5 DEF RanWhenAccepted
<1> QED
  BY <1>1, <1>2, IntakeCases

-----------------------------------------------------------------------------
(***************************************************************************)
(* The quote an accepted command names                                     *)
(***************************************************************************)

\* LastQuote and VisibleThrough as functions of a setup and a frontier.
QuoteIn(u, through) ==
    LET visible == {q \in QuoteTimes : u.play_start - u.warmup <= q /\ q <= through}
    IN  IF visible = {} THEN NoQuote ELSE Max(visible)

Through(u, front) == IF front < u.play_end THEN front ELSE u.play_end - 1

\* A stored command shows the quote of the frontier at its version.
QuoteOK(d, row, log) ==
    d.payload.reference =>
        /\ row.status \notin Unpinned
        /\ d.expected_session_version <= row.version
        /\ 1 \in IdxAtVersion(log, d.expected_session_version)
        /\ d.payload.quote = QuoteIn(SetupOf(log),
              Through(SetupOf(log), FrontierAtVersion(log, d.expected_session_version)))

\* A call that still names the stored version has the quote that is visible now.
CallOK(call, row, log) ==
    call # NoCall =>
        /\ call.expected <= row.version
        /\ call.answer = "PENDING" /\ call.payload.reference
              /\ call.expected = row.version
           => /\ row.status \notin Unpinned
              /\ call.payload.quote = QuoteIn(SetupOf(log),
                                             Through(SetupOf(log), FrontierOf(log)))

QuotesOK ==
    /\ \A d \in commands : QuoteOK(d, sessions[d.session], domain_events[d.session])
    /\ \A c \in Client : CallOK(calls[c], sessions[calls[c].session],
                                domain_events[calls[c].session])

LEMMA QuotesMean ==
    ASSUME Inv, IntakeTyped, QuotesOK
    PROVE  QuoteVisibleWhenAccepted
<1> SUFFICES ASSUME NEW d \in commands, d.payload.reference
             PROVE  LET log  == domain_events[d.session]
                        seen == FrontierAtVersion(log, d.expected_session_version)
                        last == SetupOf(log).play_end - 1
                    IN  d.payload.quote = LastQuote(d.session, IF seen < last THEN seen ELSE last)
  BY DEF QuoteVisibleWhenAccepted
<1> DEFINE log  == domain_events[d.session]
           v    == d.expected_session_version
           u    == SetupOf(log)
           seen == FrontierAtVersion(log, v)
<1>1. /\ d.session \in SessionId /\ v \in Nat
      /\ sessions[d.session].status \notin Unpinned
      /\ 1 \in IdxAtVersion(log, v)
      /\ d.payload.quote = QuoteIn(u, Through(u, seen))
  BY CommandsTyped DEF QuotesOK, QuoteOK
<1>2. u.play_end \in Int /\ log \in Seq(Event) /\ PinIdx(log) = {1}
      /\ u.play_start \in Int /\ u = log[1].payload.setup
  BY <1>1, SetupTyped, ReadTyped, PinnedSetup DEF Inv, SessionOK, PinOK
<1>3. seen \in Int
  <2> DEFINE k == Max(IdxAtVersion(log, v))
  <2>1. k \in IdxAtVersion(log, v) /\ k \in 1 .. Len(log)
    <3> HIDE DEF log
    <3> QED
      BY <1>1, <1>2, IdxBounded, MaxBounded
  <2>2. log[k] \in Event
    BY <1>2, <2>1
  <2>3. log[k].payload.time \in Int
    BY <2>2 DEF Event, Payload
  <2>4. log[k].event_type = "SESSION_COMMITTED" => k = 1
    <3>1. k \in DOMAIN log
      BY <1>2, <2>1
    <3> QED
      BY <1>2, <3>1 DEF PinIdx, PinTypes
  <2> HIDE DEF k
  <2> QED
    BY <1>2, <2>3, <2>4 DEF FrontierAtVersion, FrontierAfter, k
<1>4. Through(u, seen) = IF seen < u.play_end - 1 THEN seen ELSE u.play_end - 1
  <2> HIDE DEF u, seen
  <2> QED
    BY <1>2, <1>3, SMTT(30) DEF Through
<1> QED
  BY <1>1, <1>4 DEF LastQuote, QuoteIn

LEMMA PreparedQuote ==
    ASSUME Inv, NEW s \in SessionId, NEW p \in Principal, NEW body,
           NEW reference \in BOOLEAN, Resolvable(s, p, reference)
    PROVE  /\ Prepare(s, body, reference).reference = reference
           /\ reference =>
                /\ sessions[s].status \notin Unpinned
                /\ Prepare(s, body, reference).quote =
                      QuoteIn(SetupOf(domain_events[s]),
                              Through(SetupOf(domain_events[s]), FrontierOf(domain_events[s])))
<1>1. Prepare(s, body, reference).reference = reference
  BY DEF Prepare
<1>2. ASSUME reference
      PROVE  Prepare(s, body, reference).quote =
                QuoteIn(SetupOf(domain_events[s]),
                        Through(SetupOf(domain_events[s]), FrontierOf(domain_events[s])))
  BY <1>2 DEF Prepare, LastQuote, QuoteIn, VisibleThrough, Through
<1>3. ASSUME reference
      PROVE  sessions[s].status \notin Unpinned
  BY <1>3, PinMeansPinned DEF Resolvable, Readable
<1> QED
  BY <1>1, <1>2, <1>3

\* A stored command keeps its quote whatever its session goes on to do.
LEMMA QuoteKept ==
    ASSUME Inv, Inv', IntakeTyped, [Next]_vars, NEW d \in commands,
           QuoteOK(d, sessions[d.session], domain_events[d.session])
    PROVE  QuoteOK(d, sessions'[d.session], domain_events'[d.session])
<1> SUFFICES ASSUME d.payload.reference
             PROVE  QuoteOK(d, sessions'[d.session], domain_events'[d.session])
  BY DEF QuoteOK
<1> DEFINE s == d.session
           v == d.expected_session_version
<1>1. /\ s \in SessionId /\ v \in Nat /\ sessions[s].status \notin Unpinned
      /\ v <= sessions[s].version /\ 1 \in IdxAtVersion(domain_events[s], v)
  BY CommandsTyped DEF QuoteOK
<1>2. /\ sessions[s].version \in Nat /\ domain_events[s] \in Seq(Event)
  BY <1>1, ReadTyped
<1>3. /\ sessions'[s].status \notin Unpinned
      /\ SetupOf(domain_events'[s]) = SetupOf(domain_events[s])
      /\ Continues(sessions[s], sessions'[s], domain_events[s], domain_events'[s])
  BY <1>1, SetupKept
<1>4. /\ v <= sessions'[s].version
      /\ 1 \in IdxAtVersion(domain_events'[s], v)
      /\ FrontierAtVersion(domain_events'[s], v) = FrontierAtVersion(domain_events[s], v)
  BY <1>1, <1>2, <1>3, SettledFrontier
<1> QED
  BY <1>1, <1>3, <1>4 DEF QuoteOK

\* A call in flight: while the version it names is the stored one, nothing
\* moved its session.
LEMMA CallKept ==
    ASSUME Inv, Inv', IntakeTyped, [Next]_vars, NEW s \in SessionId, NEW call,
           call # NoCall => call.expected \in Nat,
           \/ Spends(sessions[s], sessions'[s], domain_events[s], domain_events'[s])
           \/ sessions'[s] = sessions[s] /\ domain_events'[s] = domain_events[s]
           \/ sessions'[s].version = sessions[s].version + 1,
           CallOK(call, sessions[s], domain_events[s])
    PROVE  CallOK(call, sessions'[s], domain_events'[s])
<1> SUFFICES ASSUME call # NoCall
             PROVE  CallOK(call, sessions'[s], domain_events'[s])
  BY DEF CallOK
<1>1. call.expected <= sessions[s].version /\ sessions[s].version \in Nat
      /\ call.expected \in Nat
  BY ReadTyped DEF CallOK
<1>2. CASE sessions'[s].version = sessions[s].version /\ domain_events'[s] = domain_events[s]
  <2>1. sessions[s].status \notin Unpinned => sessions'[s].status \notin Unpinned
    BY SetupKept
  <2> QED
    BY <1>2, <2>1 DEF CallOK
<1>3. CASE sessions'[s].version = sessions[s].version + 1
  BY <1>1, <1>3 DEF CallOK
<1> QED
  BY <1>2, <1>3 DEF Spends

\* The call of one client is replaced and nothing else changes.
LEMMA OneCallOK ==
    ASSUME IntakeTyped, QuotesOK, NEW c \in Client, NEW call,
           calls' = [calls EXCEPT ![c] = call], UNCHANGED <<vars, commands>>,
           CallOK(call, sessions[call.session], domain_events[call.session])
    PROVE  QuotesOK'
<1>1. ASSUME NEW x \in Client
      PROVE  CallOK(calls'[x], sessions'[calls'[x].session], domain_events'[calls'[x].session])
  <2>1. CASE x = c
    <3>1. calls'[x] = call
      BY <2>1 DEF IntakeTyped
    <3> QED
      BY <3>1 DEF vars
  <2>2. CASE x # c
    <3>1. calls'[x] = calls[x]
      BY <2>2 DEF IntakeTyped
    <3> QED
      BY <3>1 DEF vars, QuotesOK
  <2> QED
    BY <2>1, <2>2
<1> QED
  BY <1>1 DEF QuotesOK, vars

\* A request has been prepared for the version that is stored or an older one.
LEMMA PreparedOK ==
    ASSUME Inv, NEW s \in SessionId, NEW p \in Principal, NEW body,
           NEW reference \in BOOLEAN, Resolvable(s, p, reference), NEW call,
           call.expected <= sessions[s].version,
           call.payload = Prepare(s, body, reference)
    PROVE  CallOK(call, sessions[s], domain_events[s])
  BY PreparedQuote DEF CallOK

LEMMA NextQuotes ==
    ASSUME ClientLead = 0, Inv, Inv', IntakeTyped, QuotesOK, [IntakeNext]_allVars
    PROVE  QuotesOK'
<1>1. [Next]_vars
  BY IntakeIsNext
<1>2. \A d \in commands : QuoteOK(d, sessions'[d.session], domain_events'[d.session])
  BY <1>1, QuoteKept DEF QuotesOK
<1>3. ASSUME NEW c \in Client, calls[c] # NoCall
      PROVE  /\ calls[c].session \in SessionId /\ calls[c].expected \in Nat
             /\ CallOK(calls[c], sessions[calls[c].session], domain_events[calls[c].session])
  BY <1>3, CallTyped DEF QuotesOK
<1>4. CASE LifecycleStep /\ UNCHANGED intakeVars
  <2>1. ASSUME NEW c \in Client, calls[c] # NoCall
        PROVE  CallOK(calls[c], sessions'[calls[c].session], domain_events'[calls[c].session])
    <3>1. Spends(sessions[calls[c].session], sessions'[calls[c].session],
                 domain_events[calls[c].session], domain_events'[calls[c].session])
      BY <1>3, <1>4, <2>1, LifecycleSpends DEF SpendsStep
    <3> QED
      BY <1>1, <1>3, <2>1, <3>1, CallKept
  <2>2. commands' = commands /\ calls' = calls
    BY <1>4 DEF intakeVars
  <2>3. \A c \in Client : CallOK(calls[c], sessions'[calls[c].session],
                                domain_events'[calls[c].session])
    BY <2>1 DEF CallOK
  <2> QED
    BY <1>2, <2>2, <2>3 DEF QuotesOK
<1>5. ASSUME NEW c \in Client, calls[c] # NoCall, calls[c].answer = "PENDING", AcceptNew(c)
      PROVE  QuotesOK'
  <2> DEFINE w == Written(calls[c])
  <2> PICK s : s = calls[c].session
    OBVIOUS
  <2>1. /\ s \in SessionId /\ sessions[s].version = calls[c].expected
        /\ sessions[s].status = "RUNNING"
        /\ sessions'[s].version = sessions[s].version + 1
        /\ \A x \in SessionId \ {s} : sessions'[x] = sessions[x]
        /\ domain_events' = domain_events
        /\ commands' = commands \cup {w}
        /\ \A x \in SessionId : sessions'[x].status = sessions[x].status
    BY <1>5, AcceptFacts
  <2>2. /\ w.session = s /\ w.payload = calls[c].payload
        /\ w.expected_session_version = sessions[s].version
    BY <2>1 DEF Written
  <2> HIDE DEF w
  <2>3. sessions[s].version \in Nat
    BY <2>1, ReadTyped
  <2>4. QuoteOK(w, sessions'[s], domain_events'[s])
    <3> SUFFICES ASSUME w.payload.reference
                 PROVE  QuoteOK(w, sessions'[s], domain_events'[s])
      BY DEF QuoteOK
    <3>1. /\ sessions[s].status \notin Unpinned
          /\ w.payload.quote = QuoteIn(SetupOf(domain_events[s]),
                  Through(SetupOf(domain_events[s]), FrontierOf(domain_events[s])))
      BY <1>3, <1>5, <2>1, <2>2 DEF CallOK
    <3>2. /\ 1 \in IdxAtVersion(domain_events[s], sessions[s].version)
          /\ FrontierAtVersion(domain_events[s], sessions[s].version)
                = FrontierOf(domain_events[s])
      BY <2>1, <3>1, FrontierNow
    <3>3. sessions[s].version <= sessions'[s].version
      BY <2>1, <2>3
    <3> QED
      BY <2>1, <2>2, <3>1, <3>2, <3>3 DEF QuoteOK
  <2>5. /\ Respond(c, "ACCEPTED", calls[c].expected + 1)
        /\ "ACCEPTED" \in Answer /\ calls[c].expected + 1 \in Nat
    BY <1>3, <1>5 DEF AcceptNew, Answer
  <2>6. PICK call : /\ calls' = [calls EXCEPT ![c] = call]
                    /\ call.session = calls[c].session
                    /\ call.expected = calls[c].expected /\ call.answer = "ACCEPTED"
    BY <1>5, <2>5, RespondFields
  <2>7. CallOK(call, sessions'[s], domain_events'[s])
    BY <2>1, <2>3, <2>6 DEF CallOK
  <2>8. ASSUME NEW x \in Client, x # c, calls[x] # NoCall
        PROVE  CallOK(calls[x], sessions'[calls[x].session], domain_events'[calls[x].session])
    <3>1. /\ calls[x].session \in SessionId /\ calls[x].expected \in Nat
          /\ CallOK(calls[x], sessions[calls[x].session], domain_events[calls[x].session])
      BY <1>3, <2>8
    <3>2. \/ sessions'[calls[x].session].version = sessions[calls[x].session].version + 1
          \/ /\ sessions'[calls[x].session] = sessions[calls[x].session]
             /\ domain_events'[calls[x].session] = domain_events[calls[x].session]
      BY <2>1, <3>1
    <3> QED
      BY <1>1, <3>1, <3>2, CallKept
  <2>9. ASSUME NEW x \in Client
        PROVE  CallOK(calls'[x], sessions'[calls'[x].session], domain_events'[calls'[x].session])
    <3>1. CASE x = c
      <4>1. calls'[x] = call
        BY <2>6, <3>1 DEF IntakeTyped
      <4> QED
        BY <2>6, <2>7, <4>1
    <3>2. CASE x # c
      <4>1. calls'[x] = calls[x]
        BY <2>6, <3>2 DEF IntakeTyped
      <4> QED
        BY <2>8, <3>2, <4>1 DEF CallOK
    <3> QED
      BY <3>1, <3>2
  <2> QED
    BY <1>2, <2>1, <2>2, <2>4, <2>9 DEF QuotesOK
<1>6. ASSUME NEW c \in Client, NEW s \in SessionId, NEW p \in Principal,
             NEW key \in Key, NEW body \in Body, NEW reference \in BOOLEAN,
             NEW expected \in sessions[s].version .. sessions[s].version + ClientLead,
             Submit(c, s, p, key, expected, body, reference)
      PROVE  QuotesOK'
  <2> DEFINE call == [session |-> s, principal |-> p, key |-> key, expected |-> expected,
                      payload |-> Prepare(s, body, reference), answer |-> "PENDING",
                      resulting |-> 0, resends |-> 0]
  <2>1. /\ calls' = [calls EXCEPT ![c] = call] /\ UNCHANGED <<vars, commands>>
        /\ Resolvable(s, p, reference)
    BY <1>6 DEF Submit
  <2>2. call.session = s /\ call.expected <= sessions[s].version
        /\ call.payload = Prepare(s, body, reference)
    <3>1. sessions[s].version \in Nat
      BY ReadTyped
    <3> QED
      BY <3>1
  <2> HIDE DEF call
  <2>3. CallOK(call, sessions[s], domain_events[s])
    BY <2>1, <2>2, PreparedOK
  <2> QED
    BY <2>1, <2>2, <2>3, OneCallOK
<1>7. ASSUME NEW c \in Client, Resend(c)
      PROVE  QuotesOK'
  <2> PICK s : s = calls[c].session
    OBVIOUS
  <2> PICK body : body = calls[c].payload.body
    OBVIOUS
  <2> PICK reference : reference = calls[c].payload.reference
    OBVIOUS
  <2> DEFINE call == [calls[c] EXCEPT !.answer = "PENDING", !.resulting = 0,
                        !.resends = @ + 1, !.payload = Prepare(s, body, reference)]
  <2>1. /\ calls' = [calls EXCEPT ![c] = call] /\ UNCHANGED <<vars, commands>>
        /\ calls[c] # NoCall /\ Resolvable(s, calls[c].principal, reference)
    BY <1>7 DEF Resend
  <2>2. /\ calls[c] \in Call /\ s \in SessionId /\ calls[c].principal \in Principal
        /\ reference \in BOOLEAN /\ calls[c].expected <= sessions[s].version
    BY <1>3, <2>1, CallTyped DEF Prepared, CallOK
  <2>3. /\ call.session = s /\ call.expected = calls[c].expected
        /\ call.payload = Prepare(s, body, reference)
    BY <2>2 DEF Call
  <2> HIDE DEF call
  <2>4. CallOK(call, sessions[s], domain_events[s])
    BY <2>1, <2>2, <2>3, PreparedOK
  <2> QED
    BY <2>1, <2>3, <2>4, OneCallOK
<1>8. ASSUME NEW c \in Client, Finish(c)
      PROVE  QuotesOK'
  BY <1>8, OneCallOK DEF Finish, CallOK
<1>9. ASSUME NEW c \in Client, calls[c] # NoCall,
             AcceptReplay(c) \/ AcceptConflict(c) \/ AcceptReject(c)
      PROVE  QuotesOK'
  <2>1. UNCHANGED <<vars, commands>>
    BY <1>9 DEF AcceptReplay, AcceptConflict, AcceptReject
  <2>2. \E answer \in Answer \ {"PENDING"}, resulting \in Nat : Respond(c, answer, resulting)
    <3>1. \A d \in commands : d.expected_session_version + 1 \in Nat
      BY CommandsTyped
    <3> QED
      BY <1>9, <3>1 DEF AcceptReplay, AcceptConflict, AcceptReject, Answer, Existing
  <2>3. PICK call : /\ calls' = [calls EXCEPT ![c] = call]
                    /\ call.session = calls[c].session
                    /\ call.expected = calls[c].expected /\ call.answer # "PENDING"
    BY <1>9, <2>2, RespondFields
  <2>4. CallOK(call, sessions[call.session], domain_events[call.session])
    BY <1>3, <1>9, <2>3 DEF CallOK
  <2> QED
    BY <2>1, <2>3, <2>4, OneCallOK
<1>10. CASE UNCHANGED allVars
  BY <1>10 DEF allVars, vars, intakeVars, QuotesOK
<1> QED
  BY <1>4, <1>5, <1>6, <1>7, <1>8, <1>9, <1>10 DEF IntakeNext, ClientStep, Accept

-----------------------------------------------------------------------------
(***************************************************************************)
(* Theorems                                                                *)
(***************************************************************************)

\* The inductive invariant.
IntakeInv ==
    /\ Inv
    /\ IntakeTyped
    /\ VersionsPartitioned
    /\ StoredOnce
    /\ PayloadsPlain
    /\ ConflictsNamed
    /\ RunningOK
    /\ RanWhenAccepted

LEMMA InitIntake == IntakeInit => IntakeInv /\ QuotesOK
<1> SUFFICES ASSUME IntakeInit PROVE IntakeInv /\ QuotesOK
  OBVIOUS
<1>1. Inv /\ commands = {} /\ calls = [c \in Client |-> NoCall]
  BY InitInv DEF IntakeInit
<1>2. IntakeTyped
  BY <1>1 DEF IntakeTyped
<1>3. \A s \in SessionId : sessions[s] = NoRow /\ domain_events[s] = <<>>
  BY DEF IntakeInit, Init
<1>4. VersionsPartitioned
  <2>1. \A s \in SessionId : CommandVersions(s) = {} /\ EventVersions(s) = {}
    BY <1>1, <1>3 DEF CommandVersions, EventVersions
  <2>2. \A s \in SessionId : 1 .. sessions[s].version = {}
    BY <1>3 DEF NoRow
  <2> QED
    BY <1>1, <2>1, <2>2 DEF VersionsPartitioned
<1>5. StoredOnce /\ PayloadsPlain /\ ConflictsNamed
  BY <1>1 DEF StoredOnce, OneCommandPerKey, AnswersStored, Answered, PayloadsPlain,
     ConflictsNamed, ConflictOf
<1>6. RunningOK /\ RanWhenAccepted
  BY <1>1, <1>3 DEF RunningOK, RanWhenAccepted, NoRow
<1>7. QuotesOK
  BY <1>1 DEF QuotesOK, CallOK
<1> QED
  BY <1>1, <1>2, <1>4, <1>5, <1>6, <1>7 DEF IntakeInv

LEMMA NextIntake == IntakeInv /\ [IntakeNext]_allVars => IntakeInv'
<1> SUFFICES ASSUME IntakeInv, [IntakeNext]_allVars PROVE IntakeInv'
  OBVIOUS
<1> USE DEF IntakeInv
<1>1. Inv'
  BY IntakeIsNext, NextInv
<1> QED
  BY <1>1, NextTyped, NextAccounted, NextStored, NextConflicts, NextRunning, NextRan

\* TradingCommandService beside SessionService, for every interleaving: each
\* session version is spent by exactly one event or command and none is lost.
THEOREM VersionsExact == IntakeSpec => []VersionsAccounted
<1>1. IntakeInv => VersionsAccounted
  BY DEF IntakeInv, VersionsAccounted, IntakeTypeOK, IntakeTyped, Inv
<1> QED
  BY <1>1, InitIntake, NextIntake, PTL DEF IntakeSpec

\* CommandStore.accept keeps one command per key; an answer that claims
\* acceptance names it, with the payload of the call and the version it made;
\* and a conflict is answered to another request or to one whose price reference
\* has been resolved to another quote, never to a repeated request that names
\* its own prices.
THEOREM RetriesAnswered == IntakeSpec => []RetriesExact
<1>1. IntakeInv => RetriesExact
  BY ConflictsMean DEF IntakeInv, StoredOnce, RetriesExact
<1> QED
  BY <1>1, InitIntake, NextIntake, PTL DEF IntakeSpec

\* What a call that finds its key used is answered: the stored command's own
\* version if the payload prepared for it is the stored one, and a conflict if
\* it is not. Nothing is written, whatever the session's status and version are.
UsedKeyAnswer(c) ==
    calls[c] # NoCall /\ calls[c].answer = "PENDING" /\ Owned(calls[c]) =>
        \A d \in Existing(calls[c]) :
            /\ UNCHANGED <<vars, commands>>
            /\ Respond(c, IF d.payload = calls[c].payload THEN "REPLAYED"
                          ELSE "IDEMPOTENCY_CONFLICT",
                       IF d.payload = calls[c].payload
                       THEN d.expected_session_version + 1 ELSE 0)

\* CommandStore.accept answers a used key from the stored row alone: no step
\* refuses it for a stale version or a session that no longer runs, none accepts
\* it again, and the exact retry gets the version of the first acceptance.
THEOREM UsedKeysAnswered ==
    IntakeSpec => [][\A c \in Client : Accept(c) => UsedKeyAnswer(c)]_allVars
<1>1. ASSUME IntakeInv, NEW c \in Client, Accept(c)
      PROVE  UsedKeyAnswer(c)
  <2> SUFFICES ASSUME NEW d \in Existing(calls[c]), Owned(calls[c])
               PROVE  /\ UNCHANGED <<vars, commands>>
                      /\ Respond(c, IF d.payload = calls[c].payload THEN "REPLAYED"
                                    ELSE "IDEMPOTENCY_CONFLICT",
                                 IF d.payload = calls[c].payload
                                 THEN d.expected_session_version + 1 ELSE 0)
    BY DEF UsedKeyAnswer
  <2>1. \A e \in Existing(calls[c]) : e = d
    BY <1>1 DEF IntakeInv, StoredOnce, OneCommandPerKey, Existing
  <2>2. ~AcceptNew(c) /\ ~AcceptReject(c)
    BY DEF AcceptNew, AcceptReject
  <2>3. CASE AcceptReplay(c)
    BY <2>1, <2>3 DEF AcceptReplay, SamePayload
  <2>4. CASE AcceptConflict(c)
    BY <2>1, <2>4 DEF AcceptConflict, SamePayload
  <2> QED
    BY <1>1, <2>2, <2>3, <2>4 DEF Accept
<1>2. IntakeInv /\ [IntakeNext]_allVars
        => [\A c \in Client : Accept(c) => UsedKeyAnswer(c)]_allVars
  BY <1>1
<1> QED
  BY <1>2, InitIntake, NextIntake, PTL DEF IntakeSpec

\* A stored command was accepted while its replay ran, whatever version the
\* client looked ahead to.
THEOREM CommandsRan == IntakeSpec => []AcceptedWhileRunning
<1>1. IntakeInv => AcceptedWhileRunning
  BY RanMeans DEF IntakeInv
<1> QED
  BY <1>1, InitIntake, NextIntake, PTL DEF IntakeSpec

\* When clients name a version they have seen, the quote a price reference was
\* resolved to in an earlier transaction is the one visible at the frontier of
\* the acceptance.
THEOREM QuotesFenced ==
    ASSUME ClientLead = 0
    PROVE  IntakeSpec => []AcceptedInContext
<1>1. IntakeInv /\ QuotesOK => AcceptedInContext
  BY RanMeans, QuotesMean DEF IntakeInv, AcceptedInContext
<1>2. IntakeInv /\ QuotesOK /\ [IntakeNext]_allVars => (IntakeInv /\ QuotesOK)'
  <2> SUFFICES ASSUME IntakeInv, QuotesOK, [IntakeNext]_allVars
               PROVE  IntakeInv' /\ QuotesOK'
    OBVIOUS
  <2>1. IntakeInv'
    BY NextIntake
  <2> QED
    BY <2>1, NextQuotes DEF IntakeInv
<1> QED
  BY <1>1, <1>2, InitIntake, PTL DEF IntakeSpec
=============================================================================
