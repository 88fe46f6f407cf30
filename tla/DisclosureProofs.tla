-------------------------- MODULE DisclosureProofs --------------------------
(***************************************************************************)
(* What is disclosed of a session: the draw behind it, the artifact after  *)
(* it, the market pages while it replays. Proofs about Commitments,        *)
(* Results and Market, for every number of sessions, callers, secrets,     *)
(* lists, readers and events, on top of what SessionsProofs proves of the  *)
(* lifecycle.                                                              *)
(*                                                                         *)
(* Every step is a step of Sessions for the tables of the lifecycle, so    *)
(* Inv holds here as well, and a COMPLETED session keeps its row, its log  *)
(* and its commands. That is what makes the transactions of finalize       *)
(* agree: each call in flight holds an export that still shows the tables. *)
(* A session's frontier at one of its versions never changes either, so a  *)
(* page is still right when it is read or served later.                    *)
(***************************************************************************)
EXTENDS Results, Market, SessionsProofs, SequenceTheorems, FiniteSetTheorems


-----------------------------------------------------------------------------
(***************************************************************************)
(* The draw: division, the accepted values, and the place drawn            *)
(***************************************************************************)

\* Every value is a multiple of the length plus its remainder.
LEMMA DivMod ==
    ASSUME NEW c \in Nat \ {0}, NEW x \in Nat
    PROVE  \E q \in Nat : x = c * q + (x % c)
<1> DEFINE S == {y \in Nat : \E q \in Nat, r \in 0 .. c - 1 : y = c * q + r}
<1>1. 0 \in S
  <2>1. 0 = c * 0 + 0 /\ 0 \in 0 .. c - 1
    OBVIOUS
  <2> QED
    BY <2>1
<1>2. ASSUME NEW n \in S PROVE n + 1 \in S
  <2>1. PICK q \in Nat, r \in 0 .. c - 1 : n = c * q + r
    OBVIOUS
  <2>2. CASE r + 1 < c
    <3>1. n + 1 = c * q + (r + 1) /\ r + 1 \in 0 .. c - 1 /\ n + 1 \in Nat
      BY <2>1, <2>2
    <3> QED
      BY <3>1
  <2>3. CASE ~(r + 1 < c)
    <3>1. r + 1 = c
      BY <2>3
    <3>2. n + 1 = c * q + c /\ n + 1 \in Nat
      BY <2>1, <3>1
    <3>3. c * (q + 1) = c * q + c
      OBVIOUS
    <3>4. n + 1 = c * (q + 1) + 0 /\ q + 1 \in Nat /\ 0 \in 0 .. c - 1
      BY <3>2, <3>3
    <3> QED
      BY <3>2, <3>4
  <2> QED
    BY <2>2, <2>3
<1>3. S = Nat
  <2> HIDE DEF S
  <2>1. S \in SUBSET Nat
    BY DEF S
  <2> QED
    BY <1>1, <1>2, <2>1, SetInduction
<1>4. PICK q \in Nat, r \in 0 .. c - 1 : x = c * q + r
  <2>1. x \in S
    <3> HIDE DEF S
    <3> QED
      BY <1>3
  <2> QED
    BY <2>1, Zenon
<1>5. (c * q + r) % c = r
  OBVIOUS
<1> QED
  BY <1>4, <1>5

\* The values below a multiple of the length that leave remainder i.
Class(limit, c, i) == {x \in 0 .. limit - 1 : x % c = i}

LEMMA ClassFinite ==
    ASSUME NEW limit \in Nat, NEW c, NEW i
    PROVE  IsFiniteSet(Class(limit, c, i))
<1>1. IsFiniteSet(0 .. limit - 1) /\ Class(limit, c, i) \in SUBSET (0 .. limit - 1)
  BY FS_Interval DEF Class
<1> QED
  BY <1>1, FS_Subset

\* No remainder is likelier than another below a multiple of the length.
LEMMA ClassesEven ==
    ASSUME NEW c \in Nat \ {0}, NEW k \in Nat, NEW limit \in Nat, limit = c * k,
           NEW i \in 0 .. c - 1
    PROVE  Cardinality(Class(limit, c, i)) = Cardinality(Class(limit, c, 0))
<1> DEFINE S == Class(limit, c, 0)
           T == Class(limit, c, i)
           f == [x \in S |-> x + i]
<1>1. ASSUME NEW x \in S PROVE x + i \in T
  <2>1. x \in Nat /\ x < limit /\ x % c = 0
    BY DEF Class
  <2>2. PICK q \in Nat : x = c * q + (x % c)
    BY <2>1, DivMod
  <2>3. x = c * q /\ c * q < c * k
    BY <2>1, <2>2
  <2>4. c * q + i < c * k
    BY <2>3
  <2>5. (c * q + i) % c = i
    OBVIOUS
  <2> QED
    BY <2>1, <2>3, <2>4, <2>5 DEF Class
<1>2. ASSUME NEW y \in T PROVE \E x \in S : y = x + i
  <2>1. y \in Nat /\ y < limit /\ y % c = i
    BY DEF Class
  <2>2. PICK q \in Nat : y = c * q + (y % c)
    BY <2>1, DivMod
  <2>3. y = c * q + i /\ c * q \in Nat /\ c * q < limit
    BY <2>1, <2>2
  <2>4. (c * q + 0) % c = 0
    OBVIOUS
  <2>5. c * q \in S
    BY <2>3, <2>4 DEF Class
  <2> QED
    BY <2>3, <2>5
<1>3. \A x \in S : x \in Nat
  BY DEF Class
<1> HIDE DEF S, T
<1>4. f \in [S -> T]
  BY <1>1
<1>5. \A x, y \in S : f[x] = f[y] => x = y
  BY <1>3
<1>6. \A y \in T : \E x \in S : f[x] = y
  BY <1>2
<1>7. f \in Bijection(S, T)
  <2>1. DOMAIN f = S
    OBVIOUS
  <2> HIDE DEF f
  <2>2. IsInjective(f)
    BY <1>5, <2>1 DEF IsInjective
  <2> QED
    BY <1>4, <1>6, <2>2 DEF Bijection, Injection, Surjection
<1>8. ExistsBijection(S, T)
  BY <1>7, Zenon DEF ExistsBijection
<1>9. IsFiniteSet(S)
  BY ClassFinite DEF S
<1> QED
  BY <1>8, <1>9, FS_Bijection DEF S, T

\* DrawLimit is the largest multiple of the length in the space.
LEMMA LimitMultiple ==
    ASSUME NEW c \in Nat \ {0}
    PROVE  /\ DrawLimit(c) \in Nat
           /\ DrawLimit(c) <= Space
           /\ \E k \in Nat : DrawLimit(c) = c * k
<1>1. Space \in Nat
  BY DrawAssumption
<1>2. PICK k \in Nat : Space = c * k + (Space % c)
  BY <1>1, DivMod
<1>3. c * k \in Nat /\ Space % c \in Nat
  BY <1>1
<1>4. DrawLimit(c) = c * k /\ c * k <= Space
  BY <1>1, <1>2, <1>3 DEF DrawLimit
<1>5. \E q \in Nat : DrawLimit(c) = c * q
  BY <1>4, Zenon
<1>6. DrawLimit(c) \in Nat /\ DrawLimit(c) <= Space
  BY <1>3, <1>4, Zenon
<1> QED
  BY <1>5, <1>6, Zenon

\* Each place of a list is reached by equally many values of the HMAC.
LEMMA DrawEven ==
    ASSUME NEW c \in Nat \ {0}, NEW i \in 0 .. c - 1
    PROVE  Cardinality({x \in 0 .. Space - 1 : x < DrawLimit(c) /\ x % c = i}) =
           Cardinality({x \in 0 .. Space - 1 : x < DrawLimit(c) /\ x % c = 0})
<1>1. PICK limit \in Nat : limit = DrawLimit(c)
  BY LimitMultiple
<1>2. PICK k \in Nat : limit = c * k
  BY <1>1, LimitMultiple
<1>3. limit <= Space /\ Space \in Nat
  BY <1>1, LimitMultiple, DrawAssumption
<1>4. ASSUME NEW j \in 0 .. c - 1
      PROVE  {x \in 0 .. Space - 1 : x < limit /\ x % c = j} = Class(limit, c, j)
  BY <1>3 DEF Class
<1>5. 0 \in 0 .. c - 1
  OBVIOUS
<1>6. Cardinality(Class(limit, c, i)) = Cardinality(Class(limit, c, 0))
  BY <1>2, ClassesEven
<1> QED
  BY <1>1, <1>4, <1>5, <1>6

\* The smallest element of a non-empty set of natural numbers.
LEMMA MinNat ==
    ASSUME NEW T \in SUBSET Nat, T # {}
    PROVE  Min(T) \in T /\ Min(T) \in Nat
<1>1. \E x \in T : \A y \in T : x <= y
  BY LeastNat
<1> QED
  BY <1>1 DEF Min

\* The first accepted counter draws a place of the list.
LEMMA DrawTyped ==
    ASSUME NEW secret \in Secret, NEW u \in Setup, NEW episodes \in EpisodeList,
           NEW nonce \in Nonce, Derivable(SelectionSetup(u), episodes, secret, nonce)
    PROVE  LET drawn == Derive(SelectionSetup(u), episodes, secret, nonce)
           IN  /\ drawn.setup_hash = SelectionSetup(u)
               /\ drawn.eligible_set_hash = episodes
               /\ drawn.commitment_hash =
                     CommitmentHash(secret, SelectionSetup(u), episodes, nonce)
               /\ drawn.counter \in 0 .. MaxCounter
               /\ drawn.index \in 0 .. Len(episodes) - 1
               /\ episodes[drawn.index + 1] \in Episode
<1>1. PICK message : message = Message(SelectionSetup(u), episodes, nonce)
  OBVIOUS
<1>2. PICK count \in Nat \ {0} : count = Len(episodes)
  BY DrawAssumption DEF Derivable, Canonical
<1>3. PICK k : k = DrawCounter(secret, message, count)
  OBVIOUS
<1>4. k \in 0 .. MaxCounter
  <2>1. Accepted(secret, message, count) \in SUBSET (0 .. MaxCounter)
    BY DEF Accepted
  <2>2. Accepted(secret, message, count) # {}
    BY <1>1, <1>2 DEF Derivable
  <2>3. Accepted(secret, message, count) \in SUBSET Nat
    BY <2>1
  <2>4. Min(Accepted(secret, message, count)) \in Accepted(secret, message, count)
    BY <2>2, <2>3, MinNat
  <2> QED
    BY <1>3, <2>1, <2>4 DEF DrawCounter
<1>5. PICK h \in 0 .. Space - 1 : h = Hmac(secret, message, k)
  BY <1>1, <1>4, HmacAssumption
<1>6. h % count \in 0 .. count - 1
  BY <1>5, DrawAssumption
<1>7. DrawIndex(secret, message, count) = h % count
  BY <1>3, <1>5 DEF DrawIndex
<1>8. /\ Derive(SelectionSetup(u), episodes, secret, nonce).index = h % count
      /\ Derive(SelectionSetup(u), episodes, secret, nonce).counter = k
  BY <1>1, <1>2, <1>3, <1>7 DEF Derive
<1>9. ASSUME NEW i \in 0 .. count - 1 PROVE episodes[i + 1] \in Episode
  <2>1. episodes \in Seq(Episode)
    BY DrawAssumption
  <2> QED
    BY <1>2, <2>1
<1>10. episodes[(h % count) + 1] \in Episode
  BY <1>6, <1>9
<1> QED
  BY <1>2, <1>4, <1>6, <1>8, <1>10 DEF Derive

-----------------------------------------------------------------------------
(***************************************************************************)
(* The invariant                                                           *)
(***************************************************************************)

\* The place drawn is one of the list.
RowDrawn(row) == row.index \in 0 .. Len(row.eligible_set_hash) - 1

\* A secret that is out is the one sealed, of a session that is over.
SealOK(row, status) ==
    row.revealed # NoSecret => status = "COMPLETED" /\ row.revealed = row.sealed.secret

DrawsInv ==
    /\ commitments \in [CommitmentId -> Draw \cup {NoCommitment}]
    /\ prepares \subseteq [id: CommitmentId, row: Draw]
    /\ \A call \in prepares : RowDrawn(call.row) /\ call.row.revealed = NoSecret
    /\ \A id \in CommitmentId : commitments[id] # NoCommitment =>
          /\ RowDrawn(commitments[id])
          /\ SealOK(commitments[id], sessions[commitments[id].session].status)
    /\ OneDrawPerSession

CommandsInv ==
    /\ commands \subseteq Command
    /\ IsFiniteSet(commands)
    /\ \A d \in commands : d.expected < sessions[d.session].version

\* The hash opens, with a secret that is out, to the selection fields of u.
Opens(hash, s, u, draws) ==
    \E id \in CommitmentId :
        /\ draws[id] # NoCommitment
        /\ draws[id].session = s
        /\ draws[id].revealed # NoSecret
        /\ hash = CommitmentHash(draws[id].revealed, SelectionSetup(u),
                                 draws[id].eligible_set_hash, draws[id].nonce)

\* The proof was made from evidence that passed the checks of the service.
Evident(proof, s) ==
    \E m \in Manifest, t \in Trace : proof = Proof(s, m, t) /\ TraceHolds(s, t)

\* The export b shows session s as the tables have it.
StillShows(b, s, log, accepted, draws) ==
    /\ b \in Result
    /\ b.session = s
    /\ b.domain_events = log
    /\ ToSet(b.commands) = {d \in accepted : d.session = s}
    /\ b.setup = SetupOf(log)
    /\ b.ruleset = b.setup.ruleset_hash
    /\ \A hash \in b.commitments : Opens(hash, s, b.setup, draws)
    /\ Evident(b.proof, s)

\* A finalize call: its session is over, its setup the pinned one, its export
\* shows the tables, and its answer is the stored result.
CallOK(call, rows, logs, accepted, draws, bundles) ==
    /\ call \in FinalizeCall
    /\ rows[call.session].status = "COMPLETED"
    /\ call.setup = SetupOf(logs[call.session])
    /\ call.stage \in {"lookup", "insert", "answered"} =>
          StillShows(call.answer, call.session, logs[call.session], accepted, draws)
    /\ call.stage = "answered" => call.answer = bundles[call.session]

BundleOK(b, s, rows, logs, accepted, draws) ==
    b = NoResult \/ (rows[s].status = "COMPLETED" /\ StillShows(b, s, logs[s], accepted, draws))

FinalizesInv ==
    /\ finalizes \in [Finalizer -> FinalizeCall \cup {NoFinalize}]
    /\ \A f \in Finalizer : finalizes[f] # NoFinalize =>
          CallOK(finalizes[f], sessions, domain_events, commands, commitments, result_bundles)
    /\ result_bundles \in [SessionId -> Result \cup {NoResult}]
    /\ \A s \in SessionId :
          BundleOK(result_bundles[s], s, sessions, domain_events, commands, commitments)

\* The inductive invariant.
ResultsInv == Inv /\ DrawsInv /\ CommandsInv /\ FinalizesInv

-----------------------------------------------------------------------------
(***************************************************************************)
(* The tables of the lifecycle                                             *)
(***************************************************************************)

LEMMA SetupInitInv ==
    ASSUME NEW s \in SessionId, NEW p \in Principal, SetupInit(s, p)
    PROVE  Inv
<1> DEFINE row == [principal |-> p, status |-> "SETUP", version |-> 0,
                   ruleset_id |-> NoRuleset]
<1>1. row \in Row /\ NoRow \in Row
  BY BoundAssumption DEF Row, Status, NoRow
<1>2. row.status \in Unpinned /\ row.version = 0
      /\ NoRow.status \in Unpinned /\ NoRow.version = 0
  BY DEF Unpinned, NoRow
<1>3. /\ sessions = [x \in SessionId |-> IF x = s THEN row ELSE NoRow]
      /\ domain_events = [x \in SessionId |-> <<>>]
      /\ rulesets = [r \in RulesetId |-> NoRuleset]
      /\ registered = Manifest /\ revoked = {} /\ commits = {}
  BY DEF SetupInit
<1> HIDE DEF row
<1>4. TypeOK
  BY <1>1, <1>3 DEF TypeOK
<1>5. ASSUME NEW x \in SessionId
      PROVE  /\ SessionOK(sessions[x], domain_events[x])
             /\ RulesetOK(rulesets, sessions[x], domain_events[x])
  BY <1>2, <1>3 DEF SessionOK, RulesetOK
<1>6. CommitsOK(commits, rulesets)
  BY <1>3 DEF CommitsOK
<1> QED
  BY <1>4, <1>5, <1>6 DEF Inv

\* Every step is a step of Sessions, or leaves its tables alone.
LEMMA StepIsNext ==
    ASSUME [ResultsNext]_allVars
    PROVE  [Next]_vars
<1>1. CASE CommitStep
  BY <1>1 DEF Next, LifecycleStep
<1>2. CASE \E s \in SessionId, p \in Principal : OwnerStep(s, p)
  BY <1>2 DEF Next, LifecycleStep
<1>3. CASE CommitmentStep
  BY <1>3 DEF CommitmentStep, PrepareCheck, PrepareInsert, Reveal
<1>4. CASE \E s \in SessionId, p \in Principal : Accept(s, p)
  BY <1>4 DEF Accept, Next
<1>5. ASSUME NEW f \in Finalizer, FinalizeStep(f)
      PROVE  UNCHANGED vars
  BY <1>5 DEF FinalizeStep, FinalizeSession, FinalizeRows, FreezeLookup, FreezeInsert,
     Return, Move
<1>6. CASE UNCHANGED allVars
  BY <1>6 DEF allVars
<1> QED
  BY <1>1, <1>2, <1>3, <1>4, <1>5, <1>6 DEF ResultsNext

\* A completed session keeps its row and its log; a session keeps its place.
LEMMA CompletedKept ==
    ASSUME Inv, [Next]_vars, NEW s \in SessionId, sessions[s].status = "COMPLETED"
    PROVE  sessions'[s] = sessions[s] /\ domain_events'[s] = domain_events[s]
<1>1. CASE UNCHANGED vars
  BY <1>1 DEF vars
<1>2. CASE Next
  <2>1. sessions'[s] = sessions[s]
    BY <1>2, NextExtends DEF AppendOnlyStep
  <2>2. Keeps(sessions[s], sessions'[s], domain_events[s], domain_events'[s])
    BY <1>2, NextKeeps DEF KeepsStep
  <2>3. Continues(sessions[s], sessions[s], domain_events[s], domain_events'[s])
    BY <2>1, <2>2 DEF Keeps, Unpinned
  <2>4. sessions[s].version \in Nat
    BY BoundAssumption DEF Inv, TypeOK, Row
  <2>5. sessions[s].version # sessions[s].version + 1
    BY <2>4
  <2>6. domain_events'[s] = domain_events[s]
    BY <2>3, <2>5 DEF Continues
  <2> QED
    BY <2>1, <2>6
<1> QED
  BY <1>1, <1>2

LEMMA VersionsGrow ==
    ASSUME Inv, Inv', [Next]_vars, NEW s \in SessionId
    PROVE  /\ sessions[s].version \in Nat /\ sessions'[s].version \in Nat
           /\ sessions[s].version <= sessions'[s].version
<1>1. sessions[s].version \in Nat
  BY BoundAssumption DEF Inv, TypeOK, Row
<1>2. sessions'[s].version \in Nat
  BY BoundAssumption DEF Inv, TypeOK, Row
<1>3. sessions[s].version <= sessions'[s].version
  <2>1. CASE UNCHANGED vars
    BY <1>1, <2>1 DEF vars
  <2>2. CASE Next
    BY <2>2, NextExtends DEF AppendOnlyStep
  <2> QED
    BY <2>1, <2>2
<1> QED
  BY <1>1, <1>2, <1>3

-----------------------------------------------------------------------------
(***************************************************************************)
(* The draws                                                               *)
(***************************************************************************)

\* A draw whose secret is out is never rewritten.
DrawsKept(draws, draws2) ==
    \A id \in CommitmentId :
        draws[id] # NoCommitment /\ draws[id].revealed # NoSecret => draws2[id] = draws[id]

\* A step of the lifecycle that leaves the draws alone.
LEMMA LifecycleDraws ==
    ASSUME Inv, DrawsInv, [Next]_vars, UNCHANGED commitmentVars
    PROVE  DrawsInv' /\ DrawsKept(commitments, commitments')
<1>1. commitments' = commitments /\ prepares' = prepares
  BY DEF commitmentVars
<1>2. ASSUME NEW id \in CommitmentId, commitments[id] # NoCommitment
      PROVE  SealOK(commitments[id], sessions'[commitments[id].session].status)
  <2>1. SealOK(commitments[id], sessions[commitments[id].session].status)
    BY <1>2 DEF DrawsInv
  <2>2. commitments[id].session \in SessionId
    BY <1>2 DEF DrawsInv, Draw
  <2>3. CASE sessions[commitments[id].session].status = "COMPLETED"
    BY <2>1, <2>2, <2>3, CompletedKept
  <2>4. CASE sessions[commitments[id].session].status # "COMPLETED"
    BY <2>1, <2>4 DEF SealOK
  <2> QED
    BY <2>3, <2>4
<1> QED
  BY <1>1, <1>2 DEF DrawsInv, DrawsKept, OneDrawPerSession

\* What a prepare carries to its INSERT.
LEMMA CheckDraws ==
    ASSUME DrawsInv, NEW id \in CommitmentId, NEW s \in SessionId, NEW p \in Principal,
           NEW u \in Setup, NEW episodes \in EpisodeList, NEW secret \in Secret,
           NEW nonce \in Nonce, PrepareCheck(id, s, p, u, episodes, secret, nonce)
    PROVE  DrawsInv' /\ DrawsKept(commitments, commitments')
<1>1. PICK drawn : drawn = Derive(SelectionSetup(u), episodes, secret, nonce)
  OBVIOUS
<1> DEFINE row == [session |-> s, setup_hash |-> drawn.setup_hash,
                   eligible_set_hash |-> drawn.eligible_set_hash,
                   commitment_hash |-> drawn.commitment_hash, nonce |-> nonce,
                   index |-> drawn.index, counter |-> drawn.counter,
                   selected |-> episodes[drawn.index + 1],
                   sealed |-> [secret |-> secret, session |-> s, id |-> id],
                   revealed |-> NoSecret]
           call == [id |-> id, row |-> row]
<1>2. /\ drawn.setup_hash = SelectionSetup(u)
      /\ drawn.eligible_set_hash = episodes
      /\ drawn.commitment_hash = CommitmentHash(secret, SelectionSetup(u), episodes, nonce)
      /\ drawn.counter \in 0 .. MaxCounter
      /\ drawn.index \in 0 .. Len(episodes) - 1
      /\ episodes[drawn.index + 1] \in Episode
  BY <1>1, DrawTyped DEF PrepareCheck
<1>3. drawn.commitment_hash \in CommitmentHashes
  BY <1>2 DEF CommitmentHashes, CommitmentHash
<1>4. drawn.index \in Nat
  BY <1>2
<1>5. row \in Draw
  BY <1>2, <1>3, <1>4 DEF Draw
<1>6. /\ row.index = drawn.index /\ row.eligible_set_hash = drawn.eligible_set_hash
      /\ row.revealed = NoSecret
  OBVIOUS
<1>7. prepares' = prepares \cup {call} /\ UNCHANGED <<vars, commitments>>
  BY <1>1 DEF PrepareCheck
<1> HIDE DEF row
<1>8. RowDrawn(row)
  BY <1>2, <1>6 DEF RowDrawn
<1>9. call \in [id: CommitmentId, row: Draw] /\ call.row = row
  BY <1>5
<1> HIDE DEF call
<1>10. /\ prepares' \subseteq [id: CommitmentId, row: Draw]
       /\ \A c \in prepares' : RowDrawn(c.row) /\ c.row.revealed = NoSecret
  BY <1>6, <1>7, <1>8, <1>9 DEF DrawsInv
<1> QED
  BY <1>7, <1>10 DEF DrawsInv, DrawsKept, OneDrawPerSession, vars

\* The INSERT fills an empty place for a session that has no draw.
LEMMA InsertDraws ==
    ASSUME DrawsInv, NEW call \in prepares, PrepareInsert(call)
    PROVE  DrawsInv' /\ DrawsKept(commitments, commitments')
<1>1. /\ call.id \in CommitmentId /\ call.row \in Draw
      /\ RowDrawn(call.row) /\ call.row.revealed = NoSecret
  BY DEF DrawsInv
<1>2. sessions' = sessions /\ prepares' = prepares \ {call}
  BY DEF PrepareInsert, vars
<1>3. CASE ~Unique(call)
  BY <1>2, <1>3 DEF PrepareInsert, DrawsInv, DrawsKept, OneDrawPerSession
<1>4. CASE Unique(call)
  <2>1. commitments' = [commitments EXCEPT ![call.id] = call.row]
    BY <1>4 DEF PrepareInsert
  <2>2. commitments[call.id] = NoCommitment
    BY <1>4 DEF Unique
  <2>3. commitments' \in [CommitmentId -> Draw \cup {NoCommitment}]
    BY <1>1, <2>1 DEF DrawsInv
  <2>4. DrawsKept(commitments, commitments')
    BY <2>1, <2>2 DEF DrawsKept, DrawsInv
  <2>5. SealOK(call.row, sessions[call.row.session].status)
    BY <1>1 DEF SealOK
  <2>6. \A id \in CommitmentId : commitments'[id] # NoCommitment =>
            /\ RowDrawn(commitments'[id])
            /\ SealOK(commitments'[id], sessions'[commitments'[id].session].status)
    BY <1>1, <1>2, <2>1, <2>5 DEF DrawsInv
  <2>7. OneDrawPerSession'
    BY <1>4, <2>1 DEF DrawsInv, OneDrawPerSession, Unique
  <2> QED
    BY <1>2, <2>3, <2>4, <2>6, <2>7 DEF DrawsInv
<1> QED
  BY <1>3, <1>4

\* The reveal writes the sealed secret, and only of a session that is over.
LEMMA RevealDraws ==
    ASSUME DrawsInv, NEW s \in SessionId, NEW p \in Principal, NEW id \in CommitmentId,
           Reveal(s, p, id)
    PROVE  DrawsInv' /\ DrawsKept(commitments, commitments')
<1>1. PICK row : row = commitments[id]
  OBVIOUS
<1>2. /\ row # NoCommitment /\ row.session = s
      /\ row.revealed \in {NoSecret, Unsealed(s, id)} /\ Unsealed(s, id) # NoSecret
  BY <1>1 DEF Reveal, Revealable
<1>3. row \in Draw /\ RowDrawn(row)
  BY <1>1, <1>2 DEF DrawsInv
<1>4. Unsealed(s, id) = row.sealed.secret
  BY <1>1, <1>2 DEF Unsealed
<1>5. PICK secret \in Secret : secret = row.sealed.secret
  BY <1>3 DEF Draw
<1> DEFINE new == [row EXCEPT !.revealed = secret]
<1>6. new \in Draw
  BY <1>3, <1>5 DEF Draw
<1>7. /\ new.session = row.session /\ new.index = row.index
      /\ new.eligible_set_hash = row.eligible_set_hash
      /\ new.sealed = row.sealed /\ new.revealed = secret
  BY <1>3 DEF Draw
<1>8. row.revealed = secret => new = row
  BY <1>3 DEF Draw
<1>9. commitments' = [commitments EXCEPT ![id] = new]
  BY <1>1, <1>4, <1>5 DEF Reveal, DrawsInv
<1>10. sessions' = sessions /\ prepares' = prepares /\ sessions[s].status = "COMPLETED"
  BY DEF Reveal, Owns, vars
<1> HIDE DEF new
<1>11. commitments' \in [CommitmentId -> Draw \cup {NoCommitment}]
  BY <1>6, <1>9 DEF DrawsInv
<1>12. DrawsKept(commitments, commitments')
  BY <1>1, <1>2, <1>4, <1>5, <1>8, <1>9 DEF DrawsKept, DrawsInv
<1>13. RowDrawn(new) /\ SealOK(new, "COMPLETED")
  BY <1>3, <1>5, <1>7 DEF RowDrawn, SealOK
<1>14. \A i \in CommitmentId : commitments'[i] # NoCommitment =>
          /\ RowDrawn(commitments'[i])
          /\ SealOK(commitments'[i], sessions'[commitments'[i].session].status)
  BY <1>2, <1>7, <1>9, <1>10, <1>13 DEF DrawsInv
<1>15. OneDrawPerSession'
  BY <1>1, <1>2, <1>7, <1>9 DEF DrawsInv, OneDrawPerSession
<1> QED
  BY <1>10, <1>11, <1>12, <1>14, <1>15 DEF DrawsInv

LEMMA CommitmentDraws ==
    ASSUME DrawsInv, CommitmentStep
    PROVE  DrawsInv' /\ DrawsKept(commitments, commitments')
  BY CheckDraws, InsertDraws, RevealDraws DEF CommitmentStep

-----------------------------------------------------------------------------
(***************************************************************************)
(* The commands                                                            *)
(***************************************************************************)

\* A completed session takes no more commands.
CommandsKept(rows, accepted, accepted2) ==
    \A s \in SessionId : rows[s].status = "COMPLETED" =>
        {d \in accepted2 : d.session = s} = {d \in accepted : d.session = s}

LEMMA CommandsStep ==
    ASSUME Inv, Inv', [Next]_vars, CommandsInv, UNCHANGED commands
    PROVE  CommandsInv' /\ CommandsKept(sessions, commands, commands')
<1>1. ASSUME NEW d \in commands
      PROVE  d.expected < sessions'[d.session].version
  <2>1. d.session \in SessionId /\ d.expected \in Nat /\ d.expected < sessions[d.session].version
    BY DEF CommandsInv, Command
  <2>2. /\ sessions[d.session].version \in Nat /\ sessions'[d.session].version \in Nat
        /\ sessions[d.session].version <= sessions'[d.session].version
    BY <2>1, VersionsGrow
  <2> QED
    BY <2>1, <2>2
<1> QED
  BY <1>1 DEF CommandsInv, CommandsKept

LEMMA AcceptCommands ==
    ASSUME Inv, Inv', CommandsInv, NEW s \in SessionId, NEW p \in Principal, Accept(s, p)
    PROVE  CommandsInv' /\ CommandsKept(sessions, commands, commands')
<1> DEFINE new == [session |-> s, expected |-> sessions[s].version]
<1>1. AcceptCommand(s, p, sessions[s].version) /\ commands' = commands \cup {new}
  BY DEF Accept
<1>2. [Next]_vars
  BY <1>1 DEF Next
<1>3. /\ sessions[s].version \in 0 .. MaxVersion
      /\ sessions[s].status = "RUNNING"
      /\ sessions'[s].version = sessions[s].version + 1
  BY <1>1 DEF Inv, TypeOK, Row, AcceptCommand
<1>4. new \in Command /\ new.session = s /\ new.expected = sessions[s].version
  BY <1>3 DEF Command
<1> HIDE DEF new
<1>5. IsFiniteSet(commands')
  BY <1>1, FS_AddElement DEF CommandsInv
<1>6. ASSUME NEW d \in commands'
      PROVE  d.expected < sessions'[d.session].version
  <2>1. CASE d = new
    BY <1>3, <1>4, <2>1
  <2>2. CASE d \in commands
    <3>1. /\ d.session \in SessionId /\ d.expected \in Nat
          /\ d.expected < sessions[d.session].version
      BY <2>2 DEF CommandsInv, Command
    <3>2. /\ sessions[d.session].version \in Nat /\ sessions'[d.session].version \in Nat
          /\ sessions[d.session].version <= sessions'[d.session].version
      BY <1>2, <3>1, VersionsGrow
    <3> QED
      BY <3>1, <3>2
  <2> QED
    BY <1>1, <2>1, <2>2
<1>7. CommandsKept(sessions, commands, commands')
  BY <1>1, <1>3, <1>4 DEF CommandsKept
<1> QED
  BY <1>1, <1>4, <1>5, <1>6, <1>7 DEF CommandsInv

-----------------------------------------------------------------------------
(***************************************************************************)
(* Exports                                                                 *)
(***************************************************************************)

LEMMA ShowsKept ==
    ASSUME NEW b, NEW s \in SessionId, NEW log, NEW accepted, NEW accepted2, NEW draws,
           NEW draws2, StillShows(b, s, log, accepted, draws), DrawsKept(draws, draws2),
           {d \in accepted2 : d.session = s} = {d \in accepted : d.session = s}
    PROVE  StillShows(b, s, log, accepted2, draws2)
<1>1. ASSUME NEW hash, Opens(hash, s, b.setup, draws)
      PROVE  Opens(hash, s, b.setup, draws2)
  <2>1. PICK id \in CommitmentId :
            /\ draws[id] # NoCommitment
            /\ draws[id].session = s
            /\ draws[id].revealed # NoSecret
            /\ hash = CommitmentHash(draws[id].revealed, SelectionSetup(b.setup),
                                     draws[id].eligible_set_hash, draws[id].nonce)
    BY <1>1 DEF Opens
  <2>2. draws2[id] = draws[id]
    BY <2>1 DEF DrawsKept
  <2> QED
    BY <2>1, <2>2 DEF Opens
<1> QED
  BY <1>1 DEF StillShows

\* A step of the tables keeps what calls and results show.
LEMMA TablesStep ==
    ASSUME Inv, [Next]_vars, FinalizesInv, DrawsKept(commitments, commitments'),
           CommandsKept(sessions, commands, commands'),
           UNCHANGED <<result_bundles, finalizes>>
    PROVE  FinalizesInv'
<1>1. ASSUME NEW s \in SessionId, NEW b, sessions[s].status = "COMPLETED",
             StillShows(b, s, domain_events[s], commands, commitments)
      PROVE  StillShows(b, s, domain_events'[s], commands', commitments')
  <2>1. domain_events'[s] = domain_events[s]
    BY <1>1, CompletedKept
  <2>2. {d \in commands' : d.session = s} = {d \in commands : d.session = s}
    BY <1>1 DEF CommandsKept
  <2> QED
    BY <1>1, <2>1, <2>2, ShowsKept
<1>2. ASSUME NEW f \in Finalizer, finalizes[f] # NoFinalize
      PROVE  CallOK(finalizes[f], sessions', domain_events', commands', commitments',
                    result_bundles)
  <2>1. PICK call : call = finalizes[f]
    OBVIOUS
  <2>2. CallOK(call, sessions, domain_events, commands, commitments, result_bundles)
    BY <1>2, <2>1 DEF FinalizesInv
  <2>3. call.session \in SessionId /\ sessions[call.session].status = "COMPLETED"
    BY <2>2 DEF CallOK, FinalizeCall
  <2>4. /\ sessions'[call.session] = sessions[call.session]
        /\ domain_events'[call.session] = domain_events[call.session]
    BY <2>3, CompletedKept
  <2>5. StillShows(call.answer, call.session, domain_events[call.session], commands, commitments)
        => StillShows(call.answer, call.session, domain_events'[call.session], commands',
                 commitments')
    BY <1>1, <2>3
  <2> QED
    BY <2>1, <2>2, <2>4, <2>5 DEF CallOK
<1>3. ASSUME NEW s \in SessionId
      PROVE  BundleOK(result_bundles[s], s, sessions', domain_events', commands', commitments')
  <2>1. BundleOK(result_bundles[s], s, sessions, domain_events, commands, commitments)
    BY DEF FinalizesInv
  <2>2. sessions[s].status = "COMPLETED" => sessions'[s].status = "COMPLETED"
    BY CompletedKept
  <2> QED
    BY <1>1, <2>1, <2>2 DEF BundleOK
<1> QED
  BY <1>2, <1>3 DEF FinalizesInv

-----------------------------------------------------------------------------
(***************************************************************************)
(* finalize                                                                *)
(***************************************************************************)

LEMMA CallTyped ==
    ASSUME FinalizesInv, NEW f \in Finalizer, finalizes[f] # NoFinalize
    PROVE  /\ finalizes[f] \in FinalizeCall
           /\ finalizes[f].session \in SessionId
           /\ finalizes[f].setup \in Setup
           /\ CallOK(finalizes[f], sessions, domain_events, commands, commitments,
                     result_bundles)
  BY DEF FinalizesInv, CallOK, FinalizeCall

\* A caller goes on to a call that is in order.
LEMMA MoveStep ==
    ASSUME FinalizesInv, NEW f \in Finalizer, NEW call, Move(f, call),
           \/ call = NoFinalize
           \/ CallOK(call, sessions, domain_events, commands, commitments, result_bundles)
    PROVE  FinalizesInv'
<1>1. /\ finalizes' = [finalizes EXCEPT ![f] = call]
      /\ UNCHANGED <<sessions, domain_events, commitments, commands, result_bundles>>
  BY DEF Move, vars, commitmentVars
<1>2. call \in FinalizeCall \cup {NoFinalize}
  BY DEF CallOK
<1>3. finalizes' \in [Finalizer -> FinalizeCall \cup {NoFinalize}]
  BY <1>1, <1>2 DEF FinalizesInv
<1>4. ASSUME NEW g \in Finalizer, finalizes'[g] # NoFinalize
      PROVE  CallOK(finalizes'[g], sessions, domain_events, commands, commitments,
                    result_bundles)
  <2>1. finalizes'[g] = IF g = f THEN call ELSE finalizes[g]
    BY <1>1 DEF FinalizesInv
  <2> QED
    BY <1>4, <2>1 DEF FinalizesInv
<1> QED
  BY <1>1, <1>3, <1>4 DEF FinalizesInv

LEMMA SessionRead ==
    ASSUME Inv, FinalizesInv, NEW f \in Finalizer, NEW s \in SessionId, NEW p \in Principal,
           FinalizeSession(f, s, p)
    PROVE  FinalizesInv'
<1> DEFINE call == [stage |-> "rows", session |-> s, setup |-> SetupOf(domain_events[s]),
                    answer |-> NoResult]
<1>1. sessions[s].status = "COMPLETED" /\ Move(f, call)
  BY DEF FinalizeSession, Completed, Owns
<1>2. SetupOf(domain_events[s]) \in Setup
  BY <1>1, PinnedFacts DEF Unpinned, Inv, SessionOK, PinOK
<1>3. call \in FinalizeCall
  BY <1>2 DEF FinalizeCall
<1>4. CallOK(call, sessions, domain_events, commands, commitments, result_bundles)
  BY <1>1, <1>3 DEF CallOK
<1> QED
  BY <1>1, <1>4, MoveStep

\* The arrivals a caller may bring are a sequence of stored commands.
LEMMA ArrivalsTyped ==
    ASSUME CommandsInv, NEW s \in SessionId, NEW evidence \in Evidence(s)
    PROVE  evidence.arrivals \in Seq(Command) /\ evidence.trace \in Trace
<1>1. CommandsOf(s) \in SUBSET commands /\ CommandsOf(s) \in SUBSET Command
  BY DEF CommandsOf, CommandsInv
<1>2. IsFiniteSet(CommandsOf(s))
  BY <1>1, FS_Subset DEF CommandsInv
<1>3. PICK n \in Nat : n = Cardinality(CommandsOf(s))
  BY <1>2, FS_CardinalityType
<1>4. ASSUME NEW a \in SetToSeqs(CommandsOf(s)) PROVE a \in Seq(Command)
  <2>1. a \in [1 .. n -> CommandsOf(s)]
    BY <1>3 DEF SetToSeqs
  <2> QED
    BY <1>1, <2>1
<1>5. evidence.arrivals \in SetToSeqs(CommandsOf(s)) \cup {<<>>} /\ evidence.trace \in Trace
  BY DEF Evidence
<1>6. <<>> \in Seq(Command)
  OBVIOUS
<1> QED
  BY <1>4, <1>5, <1>6

\* What finalize exports shows the tables it was computed from.
LEMMA ExportShows ==
    ASSUME Inv, DrawsInv, CommandsInv, NEW s \in SessionId, NEW u \in Setup,
           sessions[s].status = "COMPLETED", u = SetupOf(domain_events[s]),
           NEW evidence \in Evidence(s), Exportable(s, u, evidence)
    PROVE  StillShows(Export(s, u, evidence), s, domain_events[s], commands, commitments)
<1> DEFINE b == Export(s, u, evidence)
<1>1. /\ b.session = s /\ b.setup = u /\ b.ruleset = rulesets[u.ruleset_id]
      /\ b.commitments = {commitments[id].commitment_hash : id \in RowOf(s)}
      /\ b.commands = evidence.arrivals /\ b.domain_events = domain_events[s]
  BY DEF Export
<1>2. b.ruleset = u.ruleset_hash
  BY <1>1 DEF Exportable
<1>3. ToSet(b.commands) = {d \in commands : d.session = s}
  BY <1>1 DEF Exportable, ArrivalsMatch, CommandsOf
<1>4. \A id \in RowOf(s) : id \in CommitmentId /\ commitments[id] \in Draw
  BY DEF RowOf, DrawsInv
<1>5. b \in Result
  <2>1. u.ruleset_hash \in RulesetHash /\ u.manifest \in Manifest
    BY SetupAssumption
  <2>2. {commitments[id].commitment_hash : id \in RowOf(s)} \in SUBSET CommitmentHashes
    BY <1>4 DEF Draw
  <2>3. {commitments[id].nonce : id \in RowOf(s)} \in SUBSET Nonce
    BY <1>4 DEF Draw
  <2>4. evidence.arrivals \in Seq(Command) /\ evidence.trace \in Trace
    BY ArrivalsTyped
  <2>5. Proof(s, u.manifest, evidence.trace)
            \in {Proof(x, m, t) : x \in SessionId, m \in Manifest, t \in Trace}
    BY <2>1, <2>4
  <2>6. domain_events[s] \in Seq(Event)
    BY DEF Inv, TypeOK
  <2>7. rulesets[u.ruleset_id] \in RulesetHash
    BY <2>1 DEF Exportable
  <2> QED
    BY <2>2, <2>3, <2>4, <2>5, <2>6, <2>7 DEF Result, Export
<1>6. ASSUME NEW hash \in b.commitments PROVE Opens(hash, s, u, commitments)
  <2>1. PICK id \in RowOf(s) : hash = commitments[id].commitment_hash
    BY <1>1
  <2>2. PICK row : row = commitments[id]
    OBVIOUS
  <2>3. id \in CommitmentId /\ row # NoCommitment /\ row.session = s
    BY <2>2 DEF RowOf
  <2>4. DrawExportable(row, u, evidence.episodes)
    BY <2>2 DEF Exportable
  <2>5. PICK derived : derived = Derive(SelectionSetup(u), evidence.episodes, row.revealed,
                                        row.nonce)
    OBVIOUS
  <2>6. /\ row.revealed # NoSecret
        /\ derived.eligible_set_hash = row.eligible_set_hash
        /\ derived.commitment_hash = row.commitment_hash
    BY <2>4, <2>5 DEF DrawExportable, Verifies
  <2>7. /\ derived.eligible_set_hash = evidence.episodes
        /\ derived.commitment_hash = CommitmentHash(row.revealed, SelectionSetup(u),
                                                    evidence.episodes, row.nonce)
    BY <2>5 DEF Derive
  <2> QED
    BY <2>1, <2>2, <2>3, <2>6, <2>7 DEF Opens
<1>7. Evident(b.proof, s)
  <2>1. b.proof = Proof(s, u.manifest, evidence.trace)
    BY DEF Export
  <2>2. u.manifest \in Manifest /\ evidence.trace \in Trace
    BY SetupAssumption, ArrivalsTyped
  <2>3. TraceHolds(s, evidence.trace)
    BY DEF Exportable
  <2> QED
    BY <2>1, <2>2, <2>3 DEF Evident
<1> HIDE DEF b
<1>8. StillShows(b, s, domain_events[s], commands, commitments)
  BY <1>1, <1>2, <1>3, <1>5, <1>6, <1>7 DEF StillShows
<1> QED
  BY <1>8 DEF b

LEMMA RowsRead ==
    ASSUME Inv, DrawsInv, CommandsInv, FinalizesInv, NEW f \in Finalizer,
           finalizes[f] # NoFinalize,
           NEW evidence \in Evidence(finalizes[f].session), FinalizeRows(f, evidence)
    PROVE  FinalizesInv'
<1>1. PICK call : call = finalizes[f]
  OBVIOUS
<1>2. /\ call \in FinalizeCall /\ call.session \in SessionId /\ call.setup \in Setup
      /\ CallOK(call, sessions, domain_events, commands, commitments, result_bundles)
  BY <1>1, CallTyped
<1>3. sessions[call.session].status = "COMPLETED"
      /\ call.setup = SetupOf(domain_events[call.session])
  BY <1>2 DEF CallOK
<1>4. CASE Exportable(call.session, call.setup, evidence)
  <2>1. PICK b : b = Export(call.session, call.setup, evidence)
    OBVIOUS
  <2>2. StillShows(b, call.session, domain_events[call.session], commands, commitments)
    BY <1>1, <1>2, <1>3, <1>4, <2>1, ExportShows
  <2>3. b \in Result
    BY <2>2 DEF StillShows
  <2> DEFINE new == [call EXCEPT !.stage = "lookup", !.answer = b]
  <2>4. Move(f, new)
    BY <1>1, <1>4, <2>1 DEF FinalizeRows
  <2>5. new \in FinalizeCall
    BY <1>2, <2>3 DEF FinalizeCall
  <2>6. /\ new.session = call.session /\ new.setup = call.setup /\ new.stage = "lookup"
        /\ new.answer = b
    BY <1>2 DEF FinalizeCall
  <2> HIDE DEF new
  <2>7. CallOK(new, sessions, domain_events, commands, commitments, result_bundles)
    BY <1>3, <2>2, <2>5, <2>6 DEF CallOK
  <2> QED
    BY <2>4, <2>7, MoveStep
<1>5. CASE ~Exportable(call.session, call.setup, evidence)
  <2> DEFINE new == [call EXCEPT !.stage = "refused"]
  <2>1. Move(f, new)
    BY <1>1, <1>5 DEF FinalizeRows
  <2>2. new \in FinalizeCall
    BY <1>2 DEF FinalizeCall
  <2>3. /\ new.session = call.session /\ new.setup = call.setup /\ new.stage = "refused"
    BY <1>2 DEF FinalizeCall
  <2> HIDE DEF new
  <2>4. CallOK(new, sessions, domain_events, commands, commitments, result_bundles)
    BY <1>3, <2>2, <2>3 DEF CallOK
  <2> QED
    BY <2>1, <2>4, MoveStep
<1> QED
  BY <1>4, <1>5

\* A call that ends without an answer is in order whatever it was.
LEMMA RefusedOK ==
    ASSUME NEW call \in FinalizeCall, NEW rows, NEW logs, NEW accepted, NEW draws,
           NEW bundles, NEW bundles2, CallOK(call, rows, logs, accepted, draws, bundles)
    PROVE  CallOK([call EXCEPT !.stage = "refused", !.answer = NoResult], rows, logs,
                  accepted, draws, bundles2)
<1> DEFINE new == [call EXCEPT !.stage = "refused", !.answer = NoResult]
<1>1. new \in FinalizeCall
  BY DEF FinalizeCall
<1>2. new.session = call.session /\ new.setup = call.setup /\ new.stage = "refused"
  BY DEF FinalizeCall
<1> HIDE DEF new
<1>3. CallOK(new, rows, logs, accepted, draws, bundles2)
  BY <1>1, <1>2 DEF CallOK
<1> QED
  BY <1>3 DEF new

LEMMA LookupStep ==
    ASSUME FinalizesInv, NEW f \in Finalizer, finalizes[f] # NoFinalize, FreezeLookup(f)
    PROVE  FinalizesInv'
<1>1. PICK call : call = finalizes[f]
  OBVIOUS
<1>2. /\ call \in FinalizeCall /\ call.session \in SessionId
      /\ CallOK(call, sessions, domain_events, commands, commitments, result_bundles)
  BY <1>1, CallTyped
<1>3. /\ sessions[call.session].status = "COMPLETED"
      /\ call.setup = SetupOf(domain_events[call.session])
      /\ StillShows(call.answer, call.session, domain_events[call.session], commands, commitments)
  BY <1>1, <1>2 DEF CallOK, FreezeLookup
<1>4. CASE result_bundles[call.session] = NoResult
  <2> DEFINE new == [call EXCEPT !.stage = "insert"]
  <2>1. Move(f, new)
    BY <1>1, <1>4 DEF FreezeLookup
  <2>2. new \in FinalizeCall
    BY <1>2 DEF FinalizeCall
  <2>3. /\ new.session = call.session /\ new.setup = call.setup /\ new.stage = "insert"
        /\ new.answer = call.answer
    BY <1>2 DEF FinalizeCall
  <2> HIDE DEF new
  <2>4. CallOK(new, sessions, domain_events, commands, commitments, result_bundles)
    BY <1>3, <2>2, <2>3 DEF CallOK
  <2> QED
    BY <2>1, <2>4, MoveStep
<1>5. CASE result_bundles[call.session] # NoResult /\ result_bundles[call.session] = call.answer
  <2> DEFINE new == [call EXCEPT !.stage = "answered",
                                 !.answer = result_bundles[call.session]]
  <2>1. Move(f, new)
    BY <1>1, <1>5 DEF FreezeLookup, Replay
  <2>2. call.answer \in Result
    BY <1>3 DEF StillShows
  <2>3. new \in FinalizeCall
    BY <1>2, <1>5, <2>2 DEF FinalizeCall
  <2>4. /\ new.session = call.session /\ new.setup = call.setup /\ new.stage = "answered"
        /\ new.answer = result_bundles[call.session]
    BY <1>2 DEF FinalizeCall
  <2> HIDE DEF new
  <2>5. CallOK(new, sessions, domain_events, commands, commitments, result_bundles)
    BY <1>3, <1>5, <2>3, <2>4 DEF CallOK
  <2> QED
    BY <2>1, <2>5, MoveStep
<1>6. CASE result_bundles[call.session] # NoResult /\ result_bundles[call.session] # call.answer
  <2>1. Move(f, [call EXCEPT !.stage = "refused", !.answer = NoResult])
    BY <1>1, <1>6 DEF FreezeLookup, Replay
  <2>2. CallOK([call EXCEPT !.stage = "refused", !.answer = NoResult], sessions,
               domain_events, commands, commitments, result_bundles)
    BY <1>2, RefusedOK
  <2> QED
    BY <2>1, <2>2, MoveStep
<1> QED
  BY <1>4, <1>5, <1>6

\* The INSERT: nobody was answered before the first result is stored.
LEMMA InsertStep ==
    ASSUME FinalizesInv, NEW f \in Finalizer, finalizes[f] # NoFinalize, FreezeInsert(f)
    PROVE  FinalizesInv' /\ WriteOnceStep
<1>1. PICK call : call = finalizes[f]
  OBVIOUS
<1>2. /\ call \in FinalizeCall /\ call.session \in SessionId
      /\ CallOK(call, sessions, domain_events, commands, commitments, result_bundles)
  BY <1>1, CallTyped
<1>3. PICK s \in SessionId : s = call.session
  BY <1>2
<1>4. /\ sessions[s].status = "COMPLETED"
      /\ call.setup = SetupOf(domain_events[s])
      /\ StillShows(call.answer, s, domain_events[s], commands, commitments)
  BY <1>1, <1>2, <1>3 DEF CallOK, FreezeInsert
<1>5. UNCHANGED <<sessions, domain_events, commitments, commands>>
  BY DEF FreezeInsert, vars, commitmentVars
<1>6. CASE ~Inserts(s)
  <2> DEFINE new == [call EXCEPT !.stage = "refused", !.answer = NoResult]
  <2>1. finalizes' = [finalizes EXCEPT ![f] = new] /\ result_bundles' = result_bundles
    BY <1>1, <1>3, <1>6 DEF FreezeInsert
  <2>2. CallOK(new, sessions, domain_events, commands, commitments, result_bundles)
    BY <1>2, RefusedOK
  <2> HIDE DEF new
  <2>3. Move(f, new)
    BY <2>1 DEF Move, FreezeInsert
  <2>4. WriteOnceStep
    BY <2>1 DEF WriteOnceStep
  <2> QED
    BY <2>2, <2>3, <2>4, MoveStep
<1>7. CASE Inserts(s)
  <2> DEFINE new == [call EXCEPT !.stage = "answered"]
  <2>1. /\ finalizes' = [finalizes EXCEPT ![f] = new]
        /\ result_bundles' = [result_bundles EXCEPT ![s] = call.answer]
    BY <1>1, <1>3, <1>7 DEF FreezeInsert
  <2>2. call.answer \in Result /\ result_bundles[s] = NoResult
    BY <1>4, <1>7 DEF StillShows, Inserts
  <2>3. new \in FinalizeCall
    BY <1>2 DEF FinalizeCall
  <2>4. /\ new.session = s /\ new.setup = call.setup /\ new.stage = "answered"
        /\ new.answer = call.answer
    BY <1>2, <1>3 DEF FinalizeCall
  <2> HIDE DEF new
  <2>5. /\ result_bundles' \in [SessionId -> Result \cup {NoResult}]
        /\ finalizes' \in [Finalizer -> FinalizeCall \cup {NoFinalize}]
        /\ result_bundles'[s] = call.answer
        /\ \A x \in SessionId : x # s => result_bundles'[x] = result_bundles[x]
        /\ finalizes'[f] = new
        /\ \A g \in Finalizer : g # f => finalizes'[g] = finalizes[g]
    BY <2>1, <2>2, <2>3 DEF FinalizesInv
  <2>6. CallOK(new, sessions, domain_events, commands, commitments, result_bundles')
    BY <1>4, <2>3, <2>4, <2>5 DEF CallOK
  <2>7. ASSUME NEW g \in Finalizer, g # f, finalizes[g] # NoFinalize
        PROVE  CallOK(finalizes[g], sessions, domain_events, commands, commitments,
                      result_bundles')
    <3>1. PICK other : other = finalizes[g]
      OBVIOUS
    <3>2. /\ other.session \in SessionId
          /\ CallOK(other, sessions, domain_events, commands, commitments, result_bundles)
      BY <2>7, <3>1, CallTyped
    <3>3. other.stage = "answered" =>
              /\ other.answer = result_bundles[other.session]
              /\ other.answer \in Result
      BY <3>2 DEF CallOK, StillShows
    <3>4. other.stage = "answered" => other.session # s
      BY <2>2, <3>3, NoResultAssumption
    <3>5. other.stage = "answered" => other.answer = result_bundles'[other.session]
      BY <2>5, <3>2, <3>3, <3>4
    <3> QED
      BY <3>1, <3>2, <3>5 DEF CallOK
  <2>8. ASSUME NEW x \in SessionId
        PROVE  BundleOK(result_bundles'[x], x, sessions, domain_events, commands, commitments)
    <3>1. CASE x = s
      BY <1>4, <2>5, <3>1 DEF BundleOK
    <3>2. CASE x # s
      BY <2>5, <3>2 DEF FinalizesInv
    <3> QED
      BY <3>1, <3>2
  <2>9. FinalizesInv'
    BY <1>5, <2>5, <2>6, <2>7, <2>8 DEF FinalizesInv
  <2>10. WriteOnceStep
    BY <2>2, <2>5 DEF WriteOnceStep
  <2> QED
    BY <2>9, <2>10
<1> QED
  BY <1>6, <1>7

LEMMA FinalizeSteps ==
    ASSUME Inv, DrawsInv, CommandsInv, FinalizesInv, NEW f \in Finalizer, FinalizeStep(f)
    PROVE  FinalizesInv' /\ WriteOnceStep
<1>1. ASSUME NEW call, Move(f, call) PROVE WriteOnceStep
  BY <1>1 DEF Move, WriteOnceStep
<1>2. ASSUME NEW s \in SessionId, NEW p \in Principal, FinalizeSession(f, s, p)
      PROVE  FinalizesInv' /\ WriteOnceStep
  BY <1>1, <1>2, SessionRead DEF FinalizeSession
<1>3. ASSUME finalizes[f] # NoFinalize, NEW evidence \in Evidence(finalizes[f].session),
             FinalizeRows(f, evidence)
      PROVE  FinalizesInv' /\ WriteOnceStep
  BY <1>1, <1>3, RowsRead DEF FinalizeRows
<1>4. ASSUME finalizes[f] # NoFinalize, FreezeLookup(f)
      PROVE  FinalizesInv' /\ WriteOnceStep
  BY <1>1, <1>4, LookupStep DEF FreezeLookup
<1>5. ASSUME finalizes[f] # NoFinalize, FreezeInsert(f)
      PROVE  FinalizesInv' /\ WriteOnceStep
  BY <1>5, InsertStep
<1>6. ASSUME Return(f) PROVE FinalizesInv' /\ WriteOnceStep
  BY <1>1, <1>6, MoveStep DEF Return
<1> QED
  BY <1>2, <1>3, <1>4, <1>5, <1>6 DEF FinalizeStep

-----------------------------------------------------------------------------
(***************************************************************************)
(* The specification                                                       *)
(***************************************************************************)

LEMMA ResultsInitInv == ResultsInit => ResultsInv
<1> SUFFICES ASSUME ResultsInit PROVE ResultsInv
  OBVIOUS
<1>1. Inv
  BY SetupInitInv DEF ResultsInit, CommitmentsInit
<1>2. DrawsInv
  BY DEF ResultsInit, CommitmentsInit, DrawsInv, OneDrawPerSession
<1>3. CommandsInv
  BY FS_EmptySet DEF ResultsInit, CommandsInv
<1>4. FinalizesInv
  BY DEF ResultsInit, FinalizesInv, BundleOK
<1> QED
  BY <1>1, <1>2, <1>3, <1>4 DEF ResultsInv

LEMMA ResultsNextInv == ResultsInv /\ [ResultsNext]_allVars => ResultsInv' /\ WriteOnceStep
<1> SUFFICES ASSUME ResultsInv, [ResultsNext]_allVars PROVE ResultsInv' /\ WriteOnceStep
  OBVIOUS
<1>1. Inv /\ DrawsInv /\ CommandsInv /\ FinalizesInv
  BY DEF ResultsInv
<1>2. [Next]_vars
  BY StepIsNext
<1>3. Inv'
  BY <1>1, <1>2, NextInv
<1>4. ASSUME UNCHANGED <<commitmentVars, resultVars>>
      PROVE  ResultsInv' /\ WriteOnceStep
  <2>1. DrawsInv' /\ DrawsKept(commitments, commitments')
    BY <1>1, <1>2, <1>4, LifecycleDraws
  <2>2. CommandsInv' /\ CommandsKept(sessions, commands, commands')
    BY <1>1, <1>2, <1>3, <1>4, CommandsStep DEF resultVars
  <2>3. FinalizesInv'
    BY <1>1, <1>2, <1>4, <2>1, <2>2, TablesStep DEF resultVars
  <2> QED
    BY <1>3, <1>4, <2>1, <2>2, <2>3 DEF ResultsInv, WriteOnceStep, resultVars
<1>5. ASSUME CommitmentStep, UNCHANGED resultVars
      PROVE  ResultsInv' /\ WriteOnceStep
  <2>1. DrawsInv' /\ DrawsKept(commitments, commitments')
    BY <1>1, <1>5, CommitmentDraws
  <2>2. CommandsInv' /\ CommandsKept(sessions, commands, commands')
    BY <1>1, <1>2, <1>3, <1>5, CommandsStep DEF resultVars
  <2>3. FinalizesInv'
    BY <1>1, <1>2, <1>5, <2>1, <2>2, TablesStep DEF resultVars
  <2> QED
    BY <1>3, <1>5, <2>1, <2>2, <2>3 DEF ResultsInv, WriteOnceStep, resultVars
<1>6. ASSUME NEW s \in SessionId, NEW p \in Principal, Accept(s, p)
      PROVE  ResultsInv' /\ WriteOnceStep
  <2>1. UNCHANGED <<commitmentVars, result_bundles, finalizes>>
    BY <1>6 DEF Accept
  <2>2. DrawsInv' /\ DrawsKept(commitments, commitments')
    BY <1>1, <1>2, <2>1, LifecycleDraws
  <2>3. CommandsInv' /\ CommandsKept(sessions, commands, commands')
    BY <1>1, <1>3, <1>6, AcceptCommands
  <2>4. FinalizesInv'
    BY <1>1, <1>2, <2>1, <2>2, <2>3, TablesStep
  <2> QED
    BY <1>3, <2>1, <2>2, <2>3, <2>4 DEF ResultsInv, WriteOnceStep
<1>7. ASSUME NEW f \in Finalizer, FinalizeStep(f)
      PROVE  ResultsInv' /\ WriteOnceStep
  <2>1. UNCHANGED <<vars, commitmentVars, commands>>
    BY <1>7 DEF FinalizeStep, FinalizeSession, FinalizeRows, FreezeLookup, FreezeInsert,
       Return, Move
  <2>2. DrawsInv'
    BY <1>1, <1>2, <2>1, LifecycleDraws
  <2>3. CommandsInv'
    BY <1>1, <1>2, <1>3, <2>1, CommandsStep
  <2>4. FinalizesInv' /\ WriteOnceStep
    BY <1>1, <1>7, FinalizeSteps
  <2> QED
    BY <1>3, <2>2, <2>3, <2>4 DEF ResultsInv
<1>8. CASE UNCHANGED allVars
  BY <1>4, <1>8 DEF allVars
<1> QED
  BY <1>4, <1>5, <1>6, <1>7, <1>8 DEF ResultsNext

\* The draws, commands, calls and results keep the shape the service relies on.
THEOREM ResultsInvariance == ResultsSpec => []ResultsInv
<1>1. ResultsInv /\ [ResultsNext]_allVars => ResultsInv'
  BY ResultsNextInv
<1> QED
  BY <1>1, ResultsInitInv, PTL DEF ResultsSpec

\* ResultStore.freeze: a stored result never changes, however many callers of
\* finalize looked before any of them inserted.
THEOREM ResultsWrittenOnce == ResultsSpec => WriteOnce
<1>1. ResultsInv /\ [ResultsNext]_allVars => [WriteOnceStep]_allVars
  BY ResultsNextInv
<1> QED
  BY <1>1, ResultsInvariance, PTL DEF ResultsSpec, WriteOnce

\* A frozen result shows the log, the commands, the setup and the ruleset its
\* session has now, its draws open to that setup with secrets that are out, and
\* every caller of finalize is answered with it.
THEOREM ResultsFaithful == ResultsSpec => []ResultFaithful
<1>1. ResultsInv => ResultFaithful
  <2> SUFFICES ASSUME ResultsInv PROVE ResultFaithful
    OBVIOUS
  <2>1. ASSUME NEW b \in Bundles
        PROVE  StillShows(b, b.session, domain_events[b.session], commands, commitments)
    <3>1. PICK s \in SessionId : b = result_bundles[s] /\ b # NoResult
      BY DEF Bundles
    <3>2. StillShows(b, s, domain_events[s], commands, commitments)
      BY <3>1 DEF ResultsInv, FinalizesInv, BundleOK
    <3>3. b.session = s
      BY <3>2 DEF StillShows
    <3> QED
      BY <3>2, <3>3
  <2>2. ResultCoversReplay
    BY <2>1 DEF ResultCoversReplay, StillShows, CommandsOf
  <2>3. DrawsProven
    BY <2>1 DEF DrawsProven, StillShows, Opens
  <2>4. AnswersFrozen
    BY DEF AnswersFrozen, ResultsInv, FinalizesInv, CallOK
  <2> QED
    BY <2>2, <2>3, <2>4 DEF ResultFaithful
<1> QED
  BY <1>1, ResultsInvariance, PTL

\* A session has at most one draw, from a list of which no place is likelier
\* than another, for every size of the list and of the value space, and its
\* secret is out only once the session stands at the end of its window.
THEOREM DrawsAlwaysSealed == ResultsSpec => []DrawsSealed
<1>1. ResultsInv => DrawsSealed
  <2> SUFFICES ASSUME ResultsInv PROVE DrawsSealed
    OBVIOUS
  <2>1. Inv /\ DrawsInv /\ CommandsInv /\ FinalizesInv
    BY DEF ResultsInv
  <2>2. ASSUME NEW row \in Rows
        PROVE  /\ row \in Draw /\ RowDrawn(row)
               /\ SealOK(row, sessions[row.session].status)
    BY <2>1 DEF Rows, DrawsInv
  <2>3. ResultsTypeOK
    <3>1. Rows \subseteq Draw
      BY <2>2
    <3>2. ASSUME NEW b \in Bundles PROVE b \in Result /\ result_bundles[b.session] = b
      <4>1. PICK s \in SessionId : b = result_bundles[s] /\ b # NoResult
        BY DEF Bundles
      <4>2. StillShows(b, s, domain_events[s], commands, commitments)
        BY <2>1, <4>1 DEF FinalizesInv, BundleOK
      <4> QED
        BY <4>1, <4>2 DEF StillShows
    <3> QED
      BY <2>1, <3>1, <3>2 DEF ResultsTypeOK, Inv, DrawsInv, CommandsInv, FinalizesInv
  <2>4. OneDrawPerSession
    BY <2>1 DEF DrawsInv
  <2>5. DrawUnbiased
    <3> SUFFICES ASSUME NEW row \in Rows, NEW count, count = Len(row.eligible_set_hash)
                 PROVE  /\ row.index \in 0 .. count - 1
                        /\ \A i \in 0 .. count - 1 :
                              Cardinality({x \in 0 .. Space - 1 :
                                              x < DrawLimit(count) /\ x % count = i}) =
                              Cardinality({x \in 0 .. Space - 1 :
                                              x < DrawLimit(count) /\ x % count = 0})
      BY DEF DrawUnbiased
    <3>1. row.index \in 0 .. count - 1
      BY <2>2 DEF RowDrawn
    <3>2. row.eligible_set_hash \in Seq(Episode)
      BY <2>2, DrawAssumption DEF Draw
    <3>3. count \in Nat \ {0}
      BY <3>1, <3>2
    <3> QED
      BY <3>1, <3>3, DrawEven
  <2>6. SecretsSealedUntilEnd
    <3> SUFFICES ASSUME NEW row \in Rows, row.revealed # NoSecret
                 PROVE  /\ sessions[row.session].status = "COMPLETED"
                        /\ AtEnd(row.session)
                        /\ row.revealed = row.sealed.secret
      BY DEF SecretsSealedUntilEnd
    <3>1. /\ sessions[row.session].status = "COMPLETED"
          /\ row.revealed = row.sealed.secret
          /\ row.session \in SessionId
      BY <2>2 DEF SealOK, Draw
    <3>2. WindowOK(sessions[row.session].status, SetupOf(domain_events[row.session]),
                   FrontierOf(domain_events[row.session]))
      BY <2>1, <3>1, PinnedFacts DEF Unpinned
    <3> QED
      BY <3>1, <3>2 DEF WindowOK, AtEnd
  <2> QED
    BY <2>3, <2>4, <2>5, <2>6 DEF DrawsSealed
<1> QED
  BY <1>1, ResultsInvariance, PTL

-----------------------------------------------------------------------------
(***************************************************************************)
(* The offline verifier accepts what the service freezes. Its kernel and   *)
(* the service each compute the chain of event hashes, so the proof runs   *)
(* the kernel beside the hash function of KernelEvents.                    *)
(***************************************************************************)

\* The hash of input i on top of the hash `prior`.
Link(prior, inputs, i) ==
    <<"event", prior, i - 1, i, inputs[i].logical_ts, inputs[i].kind, inputs[i].payload,
      inputs[i]>>

\* h is the hash function of KernelEvents, up to input m.
Chains(h, inputs, m) ==
    h = [i \in 0 .. m |-> IF i = 0 THEN <<"zero">> ELSE Link(h[i - 1], inputs, i)]

LEMMA ChainsExtend ==
    ASSUME NEW inputs, NEW m \in Nat, NEW g, Chains(g, inputs, m)
    PROVE  \E h : Chains(h, inputs, m + 1)
<1> DEFINE last == Link(g[m], inputs, m + 1)
           h == [i \in 0 .. m + 1 |-> IF i = m + 1 THEN last ELSE g[i]]
<1>1. /\ \A i \in 0 .. m + 1 : i = m + 1 \/ i \in 0 .. m
      /\ \A i \in 0 .. m : i \in 0 .. m + 1 /\ i # m + 1 /\ (i = 0 \/ i - 1 \in 0 .. m)
      /\ (m + 1) - 1 = m /\ m \in 0 .. m /\ m + 1 # 0 /\ m + 1 \in 0 .. m + 1
  OBVIOUS
<1>2. \A i \in 0 .. m : g[i] = IF i = 0 THEN <<"zero">> ELSE Link(g[i - 1], inputs, i)
  BY DEF Chains
<1> HIDE DEF last
<1>3. h[m + 1] = last /\ \A i \in 0 .. m : h[i] = g[i]
  BY <1>1
<1>4. h = [i \in 0 .. m + 1 |-> h[i]]
  OBVIOUS
<1> HIDE DEF h
<1>5. ASSUME NEW i \in 0 .. m + 1
      PROVE  h[i] = IF i = 0 THEN <<"zero">> ELSE Link(h[i - 1], inputs, i)
  <2>1. CASE i = m + 1
    <3>1. h[i - 1] = g[m] /\ i # 0
      BY <1>1, <1>3, <2>1
    <3>2. h[i] = Link(g[m], inputs, i)
      BY <1>3, <2>1 DEF last
    <3> QED
      BY <3>1, <3>2
  <2>2. CASE i \in 0 .. m
    <3>1. h[i] = IF i = 0 THEN <<"zero">> ELSE Link(g[i - 1], inputs, i)
      BY <1>2, <1>3, <2>2
    <3>2. i # 0 => h[i - 1] = g[i - 1]
      BY <1>1, <1>3, <2>2
    <3> QED
      BY <3>1, <3>2
  <2> QED
    BY <1>1, <2>1, <2>2
<1>6. Chains(h, inputs, m + 1)
  BY <1>4, <1>5 DEF Chains
<1> QED
  BY <1>6

\* The event the service writes for input i.
EventAt(h, inputs, i) ==
    [event_seq |-> i - 1, state_version |-> i, logical_ts |-> inputs[i].logical_ts,
     kind |-> inputs[i].kind, payload_hash |-> inputs[i].payload,
     prior_event_hash |-> h[i - 1], current_event_hash |-> h[i]]

LEMMA KernelIs ==
    ASSUME NEW inputs, Len(inputs) \in Nat
    PROVE  \E h : /\ Chains(h, inputs, Len(inputs))
                  /\ KernelEvents(inputs).final = h[Len(inputs)]
                  /\ KernelEvents(inputs).events =
                        [i \in DOMAIN inputs |-> EventAt(h, inputs, i)]
<1> DEFINE S == {m \in Nat : \E h : Chains(h, inputs, m)}
           G == CHOOSE h : h = [i \in 0 .. Len(inputs) |->
                   IF i = 0 THEN <<"zero">>
                   ELSE <<"event", h[i - 1], i - 1, i, inputs[i].logical_ts, inputs[i].kind,
                          inputs[i].payload, inputs[i]>>]
<1>1. 0 \in S
  <2> DEFINE h == [i \in 0 .. 0 |-> <<"zero">>]
  <2>1. Chains(h, inputs, 0)
    BY DEF Chains
  <2> QED
    BY <2>1
<1>2. \A m \in S : m + 1 \in S
  BY ChainsExtend
<1>3. S \in SUBSET Nat
  OBVIOUS
<1> HIDE DEF S
<1>4. Len(inputs) \in S
  BY <1>1, <1>2, <1>3, SetInduction
<1>5. PICK h : h = [i \in 0 .. Len(inputs) |->
                   IF i = 0 THEN <<"zero">>
                   ELSE <<"event", h[i - 1], i - 1, i, inputs[i].logical_ts, inputs[i].kind,
                          inputs[i].payload, inputs[i]>>]
  BY <1>4 DEF S, Chains, Link
<1>6. G = [i \in 0 .. Len(inputs) |->
                   IF i = 0 THEN <<"zero">>
                   ELSE <<"event", G[i - 1], i - 1, i, inputs[i].logical_ts, inputs[i].kind,
                          inputs[i].payload, inputs[i]>>]
  BY <1>5
<1>7. /\ KernelEvents(inputs).final = G[Len(inputs)]
      /\ KernelEvents(inputs).events =
            [i \in DOMAIN inputs |->
               [event_seq |-> i - 1, state_version |-> i, logical_ts |-> inputs[i].logical_ts,
                kind |-> inputs[i].kind, payload_hash |-> inputs[i].payload,
                prior_event_hash |-> G[i - 1], current_event_hash |-> G[i]]]
  BY DEF KernelEvents
<1> HIDE DEF G
<1> QED
  BY <1>6, <1>7 DEF Chains, Link, EventAt

\* The kernel after the first i inputs.
KernelAt(h, inputs, i) ==
    [next_input_seq |-> i, next_event_seq |-> i, state_version |-> i,
     current_event_hash |-> h[i], events |-> [k \in 1 .. i |-> EventAt(h, inputs, k)],
     ok |-> TRUE]

\* Inputs that the service lets through continue the kernel, one by one.
LEMMA ApplyContinues ==
    ASSUME NEW s, NEW inputs \in Seq(CanonicalInput), InputsContiguous(s, inputs),
           NEW h, Chains(h, inputs, Len(inputs)), NEW i \in 1 .. Len(inputs)
    PROVE  Verify!Apply(KernelAt(h, inputs, i - 1), inputs[i]) = KernelAt(h, inputs, i)
<1>1. PICK k, x, past, e, digest :
         /\ k = KernelAt(h, inputs, i - 1) /\ x = inputs[i]
         /\ past = [j \in 1 .. i - 1 |-> EventAt(h, inputs, j)]
         /\ e = EventAt(h, inputs, i) /\ digest = h[i]
  OBVIOUS
<1>2. Len(inputs) \in Nat /\ DOMAIN inputs = 1 .. Len(inputs) /\ i \in Nat /\ i # 0
  BY LenProperties
<1>3. x.input_seq = i - 1 /\ x.expected_state_version = i - 1
  BY <1>1, <1>2 DEF InputsContiguous
<1>4. digest = <<"event", h[i - 1], i - 1, i, x.logical_ts, x.kind, x.payload, x>>
  <2>1. i \in 0 .. Len(inputs)
    BY <1>2
  <2>2. h[i] = Link(h[i - 1], inputs, i)
    BY <1>2, <2>1 DEF Chains
  <2> QED
    BY <1>1, <2>2 DEF Link
<1>5. /\ k.next_input_seq = i - 1 /\ k.next_event_seq = i - 1 /\ k.state_version = i - 1
      /\ k.current_event_hash = h[i - 1] /\ k.events = past /\ k.ok = TRUE
  BY <1>1 DEF KernelAt
<1>6. /\ k.next_input_seq + 1 = i /\ k.next_event_seq + 1 = i /\ k.state_version + 1 = i
  BY <1>2, <1>5
<1>7. e = [event_seq |-> i - 1, state_version |-> i, logical_ts |-> x.logical_ts,
           kind |-> x.kind, payload_hash |-> x.payload,
           prior_event_hash |-> h[i - 1], current_event_hash |-> digest]
  BY <1>1 DEF EventAt
<1>8. Append(past, e) = [j \in 1 .. i |-> EventAt(h, inputs, j)]
  <2> DEFINE E == {EventAt(h, inputs, j) : j \in 1 .. i}
  <2>1. /\ \A j \in 1 .. i - 1 : j \in 1 .. i
        /\ \A j \in 1 .. i : j = i \/ j \in 1 .. i - 1
        /\ i \in 1 .. i /\ i - 1 \in Nat /\ (i - 1) + 1 = i
    BY <1>2
  <2>2. past \in [1 .. i - 1 -> E] /\ e \in E
    BY <1>1, <2>1
  <2> HIDE DEF E
  <2>3. past \in Seq(E) /\ Len(past) = i - 1
    <3>1. past \in Seq(E)
      BY <2>1, <2>2, SeqDef
    <3>2. DOMAIN past = 1 .. i - 1 /\ DOMAIN past = 1 .. Len(past) /\ Len(past) \in Nat
      BY <2>2, <3>1, LenProperties
    <3> QED
      BY <2>1, <3>1, <3>2
  <2>4. PICK longer : longer = Append(past, e)
    OBVIOUS
  <2>5. /\ longer \in Seq(E) /\ Len(longer) = i
        /\ \A j \in 1 .. i - 1 : longer[j] = past[j]
        /\ longer[i] = e
    BY <2>1, <2>2, <2>3, <2>4, AppendProperties
  <2>6. DOMAIN longer = 1 .. i /\ longer = [j \in 1 .. i |-> longer[j]]
    BY <2>5, LenProperties
  <2>7. \A j \in 1 .. i : longer[j] = EventAt(h, inputs, j)
    BY <1>1, <2>1, <2>5
  <2> QED
    BY <2>4, <2>6, <2>7
<1>9. Verify!Apply(k, x) =
         [next_input_seq |-> i, next_event_seq |-> i, state_version |-> i,
          current_event_hash |-> digest, events |-> Append(past, e), ok |-> TRUE]
  BY <1>3, <1>4, <1>5, <1>6, <1>7 DEF Verify!Apply
<1> QED
  BY <1>1, <1>8, <1>9 DEF KernelAt

\* k is what replaying the first m inputs computes, step by step.
Replays(k, inputs, m) ==
    k = [i \in 0 .. m |-> IF i = 0 THEN Verify!PristineKernel
                                   ELSE Verify!Apply(k[i - 1], inputs[i])]

LEMMA ReplayIs ==
    ASSUME NEW s, NEW inputs \in Seq(CanonicalInput), InputsContiguous(s, inputs),
           NEW h, Chains(h, inputs, Len(inputs))
    PROVE  Verify!Replayed(inputs) = KernelAt(h, inputs, Len(inputs))
<1> DEFINE n == Len(inputs)
           K == [i \in 0 .. n |-> KernelAt(h, inputs, i)]
           G == CHOOSE k : k = [i \in 0 .. Len(inputs) |->
                   IF i = 0 THEN Verify!PristineKernel
                            ELSE Verify!Apply(k[i - 1], inputs[i])]
<1>1. n \in Nat /\ 0 \in 0 .. n /\ n \in 0 .. n
      /\ \A i \in 0 .. n : i = 0 \/ (i \in 1 .. n /\ i - 1 \in 0 .. n)
  BY LenProperties
<1>2. KernelAt(h, inputs, 0) = Verify!PristineKernel
  <2>1. h[0] = <<"zero">>
    BY <1>1 DEF Chains
  <2>2. [k \in 1 .. 0 |-> EventAt(h, inputs, k)] = << >>
    OBVIOUS
  <2> QED
    BY <2>1, <2>2 DEF KernelAt, Verify!PristineKernel, Verify!ZeroHash
<1>3. ASSUME NEW i \in 1 .. n
      PROVE  KernelAt(h, inputs, i) = Verify!Apply(KernelAt(h, inputs, i - 1), inputs[i])
  BY ApplyContinues
<1>4. Replays(K, inputs, n)
  <2>1. \A i \in 0 .. n : K[i] = KernelAt(h, inputs, i)
    OBVIOUS
  <2>2. K = [i \in 0 .. n |-> K[i]]
    OBVIOUS
  <2> HIDE DEF K
  <2>3. ASSUME NEW i \in 0 .. n
        PROVE  K[i] = IF i = 0 THEN Verify!PristineKernel
                               ELSE Verify!Apply(K[i - 1], inputs[i])
    <3>1. CASE i = 0
      BY <1>2, <2>1, <3>1
    <3>2. CASE i # 0
      <4>1. i \in 1 .. n /\ K[i - 1] = KernelAt(h, inputs, i - 1)
        BY <1>1, <2>1, <3>2
      <4> QED
        BY <1>3, <2>1, <3>2, <4>1
    <3> QED
      BY <3>1, <3>2
  <2> QED
    BY <2>2, <2>3 DEF Replays
<1>5. PICK k : k = [i \in 0 .. Len(inputs) |->
                   IF i = 0 THEN Verify!PristineKernel
                            ELSE Verify!Apply(k[i - 1], inputs[i])]
  BY <1>4 DEF Replays
<1>6. G = [i \in 0 .. Len(inputs) |->
                   IF i = 0 THEN Verify!PristineKernel
                            ELSE Verify!Apply(G[i - 1], inputs[i])]
  BY <1>5
<1>7. Verify!Replayed(inputs) = G[Len(inputs)]
  BY DEF Verify!Replayed
<1> HIDE DEF G, K, n
<1>8. \A i \in 0 .. n : G[i] = IF i = 0 THEN Verify!PristineKernel
                                        ELSE Verify!Apply(G[i - 1], inputs[i])
  BY <1>6 DEF n
<1> DEFINE S == {i \in Nat : i \in 0 .. n => G[i] = KernelAt(h, inputs, i)}
<1>9. 0 \in S
  BY <1>1, <1>2, <1>8
<1>10. ASSUME NEW i \in S PROVE i + 1 \in S
  <2> SUFFICES ASSUME i + 1 \in 0 .. n PROVE G[i + 1] = KernelAt(h, inputs, i + 1)
    OBVIOUS
  <2>1. i \in 0 .. n /\ i + 1 \in 1 .. n /\ (i + 1) - 1 = i /\ i + 1 # 0
    BY <1>1
  <2>2. G[i] = KernelAt(h, inputs, i)
    BY <2>1
  <2>3. G[i + 1] = Verify!Apply(G[(i + 1) - 1], inputs[i + 1])
    BY <1>8, <2>1
  <2>4. KernelAt(h, inputs, i + 1)
          = Verify!Apply(KernelAt(h, inputs, (i + 1) - 1), inputs[i + 1])
    BY <1>3, <2>1
  <2> QED
    BY <2>1, <2>2, <2>3, <2>4
<1>11. S \in SUBSET Nat
  OBVIOUS
<1> HIDE DEF S
<1>12. n \in S
  BY <1>1, <1>9, <1>10, <1>11, SetInduction
<1> QED
  BY <1>1, <1>7, <1>12 DEF S, n

\* The key of the service and the derived order of the verifier agree.
LEMMA KeysAgree ==
    ASSUME NEW a \in [account: Int, amount: Int, currency: Int],
           NEW b \in [account: Int, amount: Int, currency: Int]
    PROVE  KeyLess(PostingKey(a), PostingKey(b)) <=> Verify!PostingLess(a, b)
<1>1. PICK x, y : x = PostingKey(a) /\ y = PostingKey(b)
  OBVIOUS
<1>2. /\ x[1] = a.account /\ x[2] = a.amount /\ x[3] = a.currency
      /\ y[1] = b.account /\ y[2] = b.amount /\ y[3] = b.currency
  BY <1>1 DEF PostingKey
<1>3. KeyLess(x, y) <=> \/ x[1] < y[1]
                        \/ x[1] = y[1] /\ x[2] < y[2]
                        \/ x[1] = y[1] /\ x[2] = y[2] /\ x[3] < y[3]
  <2>1. 1 .. 3 = {1, 2, 3} /\ 1 .. 1 - 1 = {} /\ 1 .. 2 - 1 = {1} /\ 1 .. 3 - 1 = {1, 2}
    OBVIOUS
  <2> DEFINE At(i) == x[i] < y[i] /\ \A j \in 1 .. i - 1 : x[j] = y[j]
  <2>2. /\ At(1) <=> x[1] < y[1]
        /\ At(2) <=> x[1] = y[1] /\ x[2] < y[2]
        /\ At(3) <=> x[1] = y[1] /\ x[2] = y[2] /\ x[3] < y[3]
    BY <2>1
  <2>3. KeyLess(x, y) <=> \E i \in 1 .. 3 : At(i)
    BY DEF KeyLess
  <2> HIDE DEF At
  <2>4. KeyLess(x, y) <=> At(1) \/ At(2) \/ At(3)
    BY <2>1, <2>3
  <2> QED
    BY <2>2, <2>4
<1> QED
  BY <1>1, <1>2, <1>3 DEF Verify!PostingLess

\* Both digest the postings of every transaction in the same order.
LEMMA DigestsAgree ==
    ASSUME NEW ledger \in Seq(LedgerTransaction)
    PROVE  Verify!LedgerDigest(ledger) = LedgerCommitment(ledger)
<1> DEFINE Keyed(p) == {kl \in (DOMAIN p) \X (DOMAIN p) :
                           KeyLess(PostingKey(p[kl[1]]), PostingKey(p[kl[2]]))}
           Derived(p) == {kl \in (DOMAIN p) \X (DOMAIN p) :
                             Verify!PostingLess(p[kl[1]], p[kl[2]])}
<1>1. ASSUME NEW i \in DOMAIN ledger
      PROVE  Derived(ledger[i].postings) = Keyed(ledger[i].postings)
  <2>1. PICK p : p = ledger[i].postings
    OBVIOUS
  <2>2. ledger[i] \in LedgerTransaction
    BY LenProperties, ElementOfSeq
  <2>3. p \in Seq([account: Int, amount: Int, currency: Int])
    BY <2>1, <2>2 DEF LedgerTransaction
  <2>4. \A k \in DOMAIN p : p[k] \in [account: Int, amount: Int, currency: Int]
    BY <2>3, LenProperties, ElementOfSeq
  <2>5. \A kl \in (DOMAIN p) \X (DOMAIN p) :
           KeyLess(PostingKey(p[kl[1]]), PostingKey(p[kl[2]]))
             <=> Verify!PostingLess(p[kl[1]], p[kl[2]])
    <3> SUFFICES ASSUME NEW kl \in (DOMAIN p) \X (DOMAIN p)
                 PROVE  KeyLess(PostingKey(p[kl[1]]), PostingKey(p[kl[2]]))
                          <=> Verify!PostingLess(p[kl[1]], p[kl[2]])
      OBVIOUS
    <3>1. kl[1] \in DOMAIN p /\ kl[2] \in DOMAIN p
      OBVIOUS
    <3> QED
      BY <2>4, <3>1, KeysAgree
  <2>6. Derived(p) = Keyed(p)
    BY <2>5
  <2> QED
    BY <2>1, <2>6
<1>2. \A p, less : Verify!Sorted(p, less) = Sorted(p, less)
  BY Zenon DEF Verify!Sorted, Sorted, Verify!Cardinality, Cardinality
<1> DEFINE Digested(t, sorted) == <<t.event_seq, t.id,
                [k \in DOMAIN t.postings |->
                    <<sorted[k].currency, sorted[k].account, sorted[k].amount>>]>>
<1>3. LedgerCommitment(ledger) =
         <<"ledger", [i \in DOMAIN ledger |->
             Digested(ledger[i], Sorted(ledger[i].postings, Keyed(ledger[i].postings)))]>>
  BY Zenon DEF LedgerCommitment
<1>4. Verify!LedgerDigest(ledger) =
         <<"ledger", [i \in DOMAIN ledger |->
             Digested(ledger[i], Verify!Sorted(ledger[i].postings, Derived(ledger[i].postings)))]>>
  BY Zenon DEF Verify!LedgerDigest
<1> HIDE DEF Keyed, Derived, Digested
<1>5. ASSUME NEW i \in DOMAIN ledger
      PROVE  Digested(ledger[i], Verify!Sorted(ledger[i].postings, Derived(ledger[i].postings)))
               = Digested(ledger[i], Sorted(ledger[i].postings, Keyed(ledger[i].postings)))
  BY <1>1, <1>2, Zenon
<1> QED
  BY <1>3, <1>4, <1>5

\* What the checks of the service let through, the verifier accepts.
LEMMA EvidentAccepted ==
    ASSUME NEW s, NEW m, NEW t \in Trace, TraceHolds(s, t),
           NEW proof, proof = Proof(s, m, t)
    PROVE  Verify!Accepts(proof)
<1>1. PICK inputs, states, ledger, kernel :
         /\ inputs = t.inputs /\ states = t.states /\ ledger = t.ledger
         /\ kernel = KernelEvents(inputs)
  OBVIOUS
<1>2. inputs \in Seq(CanonicalInput) /\ ledger \in Seq(LedgerTransaction)
  BY <1>1, TraceAssumption
<1>3. /\ proof.session = s /\ proof.manifest_hashes = <<m>>
      /\ proof.manifest_set_hash = <<"manifests", <<m>>>>
      /\ proof.inputs = inputs /\ proof.kernel_events = kernel.events
      /\ proof.state_hashes = states /\ proof.state_hashes_hash = <<"states", states>>
      /\ proof.ledger_transactions = ledger /\ proof.ledger_hash = LedgerCommitment(ledger)
      /\ proof.metrics = t.metrics
      /\ proof.result_hash = <<"result", s, <<"manifests", <<m>>>>, kernel.final,
                               <<"states", states>>, LedgerCommitment(ledger), t.metrics>>
  BY <1>1 DEF Proof
<1>4. /\ InputsContiguous(s, inputs)
      /\ \A i, j \in DOMAIN states : i < j => states[i].event_seq < states[j].event_seq
      /\ \A i \in DOMAIN ledger : Len(ledger[i].postings) >= 2 /\ Balanced(ledger[i].postings)
      /\ \A i, j \in DOMAIN ledger : i < j =>
            ledger[i].id # ledger[j].id /\ ledger[i].event_seq <= ledger[j].event_seq
  BY <1>1 DEF TraceHolds
<1>5. Len(inputs) \in Nat /\ DOMAIN inputs = 1 .. Len(inputs)
  BY <1>2, LenProperties
<1>6. PICK h : /\ Chains(h, inputs, Len(inputs))
               /\ kernel.final = h[Len(inputs)]
               /\ kernel.events = [i \in DOMAIN inputs |-> EventAt(h, inputs, i)]
  <2>1. PICK h : /\ Chains(h, inputs, Len(inputs))
                 /\ KernelEvents(inputs).final = h[Len(inputs)]
                 /\ KernelEvents(inputs).events =
                       [i \in DOMAIN inputs |-> EventAt(h, inputs, i)]
    BY <1>5, KernelIs
  <2> QED
    BY <1>1, <2>1
<1>7. PICK done : done = Verify!Replayed(inputs)
  OBVIOUS
<1>8. /\ done.ok = TRUE /\ done.events = kernel.events
      /\ done.current_event_hash = kernel.final
  <2>1. done = KernelAt(h, inputs, Len(inputs))
    BY <1>2, <1>4, <1>6, <1>7, ReplayIs
  <2>2. done.ok = TRUE /\ done.current_event_hash = h[Len(inputs)]
        /\ done.events = [k \in 1 .. Len(inputs) |-> EventAt(h, inputs, k)]
    BY <2>1 DEF KernelAt
  <2> QED
    BY <1>5, <1>6, <2>2
<1>9. Verify!ReplaysKernel(proof)
  <2>1. Len(kernel.events) = Len(inputs)
    <3> DEFINE E == {EventAt(h, inputs, i) : i \in 1 .. Len(inputs)}
    <3>1. kernel.events \in [1 .. Len(inputs) -> E]
      BY <1>5, <1>6
    <3> HIDE DEF E
    <3>2. kernel.events \in Seq(E)
      BY <1>5, <3>1, SeqDef
    <3>3. /\ DOMAIN kernel.events = 1 .. Len(inputs) /\ Len(kernel.events) \in Nat
          /\ DOMAIN kernel.events = 1 .. Len(kernel.events)
      BY <3>1, <3>2, LenProperties
    <3> QED
      BY <1>5, <3>3
  <2>2. \A i \in DOMAIN inputs : inputs[i].session = s
    BY <1>4 DEF InputsContiguous
  <2> QED
    BY <1>3, <1>7, <1>8, <2>1, <2>2 DEF Verify!ReplaysKernel
<1>10. Verify!StateHashesHold(proof)
  BY <1>3, <1>4 DEF Verify!StateHashesHold
<1>11. Verify!LedgerHolds(proof)
  <2>1. ASSUME NEW i \in DOMAIN ledger, NEW k \in DOMAIN ledger[i].postings
        PROVE  Verify!CurrencyTotal(ledger[i].postings, ledger[i].postings[k].currency) = 0
    <3>1. PICK p, c : p = ledger[i].postings /\ c = p[k].currency
      OBVIOUS
    <3>2. SumOf([l \in DOMAIN p |-> IF p[l].currency = c THEN p[l].amount ELSE 0]) = 0
      <4>1. Balanced(p) /\ k \in DOMAIN p
        BY <1>4, <2>1, <3>1
      <4>2. c \in {p[l].currency : l \in DOMAIN p}
        BY <3>1, <4>1
      <4> QED
        BY <4>1, <4>2, Zenon DEF Balanced
    <3>3. \A x : Verify!SumOf(x) = SumOf(x)
      BY Zenon DEF Verify!SumOf, SumOf
    <3> QED
      BY <3>1, <3>2, <3>3, Zenon DEF Verify!CurrencyTotal
  <2>2. proof.ledger_hash = Verify!LedgerDigest(ledger)
    BY <1>2, <1>3, DigestsAgree
  <2> QED
    BY <1>3, <1>4, <2>1, <2>2 DEF Verify!LedgerHolds
<1> QED
  BY <1>3, <1>7, <1>8, <1>9, <1>10, <1>11 DEF Verify!Accepts

\* The offline verifier, which shares no code with the service, accepts every
\* result that the service has frozen, whatever evidence callers brought and
\* however their calls were interleaved.
THEOREM VerifierAlwaysAccepts == ResultsSpec => []VerifierAccepts
<1>1. ResultsInv => VerifierAccepts
  <2> SUFFICES ASSUME ResultsInv, NEW b \in Bundles PROVE Verify!Accepts(b.proof)
    BY DEF VerifierAccepts
  <2>1. PICK s \in SessionId : b = result_bundles[s] /\ b # NoResult
    BY DEF Bundles
  <2>2. Evident(b.proof, s)
    BY <2>1 DEF ResultsInv, FinalizesInv, BundleOK, StillShows
  <2>3. PICK m \in Manifest, t \in Trace : b.proof = Proof(s, m, t) /\ TraceHolds(s, t)
    BY <2>2 DEF Evident
  <2> QED
    BY <2>3, EvidentAccepted
<1> QED
  BY <1>1, ResultsInvariance, PTL

-----------------------------------------------------------------------------
(***************************************************************************)
(* Slices. The tape of a channel is ordered, so what a page selects from   *)
(* it is a run of consecutive events.                                      *)
(***************************************************************************)

\* The n elements of s that follow the first a.
Slice(s, a, n) == [k \in 1 .. n |-> s[a + k]]

LEMMA SliceFacts ==
    ASSUME NEW A, NEW s \in Seq(A), NEW a \in Nat, NEW n \in Nat, a + n <= Len(s)
    PROVE  /\ Slice(s, a, n) \in Seq(A)
           /\ Len(Slice(s, a, n)) = n
           /\ DOMAIN Slice(s, a, n) = 1 .. n
           /\ \A k \in 1 .. n : a + k \in 1 .. Len(s) /\ Slice(s, a, n)[k] = s[a + k]
<1>1. \A k \in 1 .. n : a + k \in 1 .. Len(s)
  OBVIOUS
<1>2. \A k \in 1 .. n : s[a + k] \in A
  BY <1>1
<1>3. Slice(s, a, n) \in [1 .. n -> A]
  BY <1>2 DEF Slice
<1>4. Slice(s, a, n) \in Seq(A) /\ Len(Slice(s, a, n)) = n
  BY <1>3, SeqDef, LenProperties
<1> QED
  BY <1>1, <1>4 DEF Slice

\* The same without its elements.
LEMMA SliceTyped ==
    ASSUME NEW A, NEW s \in Seq(A), NEW a \in Nat, NEW n \in Nat, a + n <= Len(s)
    PROVE  Slice(s, a, n) \in Seq(A) /\ Len(Slice(s, a, n)) = n
  BY SliceFacts

\* The beginning of a slice, and a slice of a slice.
LEMMA SubSlice ==
    ASSUME NEW A, NEW s \in Seq(A), NEW a \in Nat, NEW n \in Nat, a + n <= Len(s),
           NEW m \in Nat, m <= n
    PROVE  SubSeq(Slice(s, a, n), 1, m) = Slice(s, a, m)
<1>1. SubSeq(Slice(s, a, n), 1, m) = [k \in 1 .. m |-> Slice(s, a, n)[k]]
  <2>1. SubSeq(Slice(s, a, n), 1, m) = [i \in 1 .. (1 + m - 1) |-> Slice(s, a, n)[i + 1 - 1]]
    BY DEF SubSeq
  <2>2. 1 + m - 1 = m /\ \A i \in 1 .. m : i + 1 - 1 = i
    OBVIOUS
  <2> QED
    BY <2>1, <2>2
<1>2. \A k \in 1 .. m : Slice(s, a, n)[k] = s[a + k]
  BY DEF Slice
<1> QED
  BY <1>1, <1>2 DEF Slice

LEMMA SliceSlice ==
    ASSUME NEW s, NEW a \in Nat, NEW n \in Nat, NEW c \in Nat, NEW m \in Nat, c + m <= n
    PROVE  Slice(Slice(s, a, n), c, m) = Slice(s, a + c, m)
<1>1. \A k \in 1 .. m : c + k \in 1 .. n /\ a + (c + k) = (a + c) + k
  OBVIOUS
<1> QED
  BY <1>1 DEF Slice

\* When exactly the places a+1 .. a+n of s pass, SelectIn is that slice.
LEMMA SelectsSlice ==
    ASSUME NEW A, NEW s \in Seq(A), NEW T, NEW f, Selects(f, s, T),
           NEW a \in Nat, NEW n \in Nat, a + n <= Len(s),
           \A k \in 1 .. Len(s) : s[k] \in T <=> a < k /\ k <= a + n
    PROVE  f[Len(s)] = Slice(s, a, n)
<1> DEFINE size(i) == IF i <= a THEN 0 ELSE IF i <= a + n THEN i - a ELSE n
           Good(i) == f[i] = Slice(s, a, size(i))
           S == {i \in Nat : i <= Len(s) => Good(i)}
<1>1. /\ Len(s) \in Nat /\ \A i \in 1 .. Len(s) : s[i] \in A
  OBVIOUS
<1>2. f[0] = << >>
  <2>1. 0 \in 0 .. Len(s)
    BY <1>1
  <2> QED
    BY <2>1 DEF Selects
<1>3. \A i \in 0 .. Len(s) : i # 0 => f[i] = IF s[i] \in T THEN Append(f[i - 1], s[i]) ELSE f[i - 1]
  BY DEF Selects
<1>4. 0 \in S
  <2>1. size(0) = 0 /\ 1 .. 0 = {}
    OBVIOUS
  <2>2. Slice(s, a, 0) = << >>
    BY <2>1, SliceFacts, EmptySeq
  <2> QED
    BY <1>2, <2>1, <2>2
<1>5. ASSUME NEW i \in S PROVE i + 1 \in S
  <2> SUFFICES ASSUME i + 1 <= Len(s) PROVE Good(i + 1)
    OBVIOUS
  <2>1. i \in Nat /\ i + 1 \in 0 .. Len(s) /\ i + 1 \in 1 .. Len(s) /\ (i + 1) - 1 = i /\ i <= Len(s)
    BY <1>1
  <2>2. f[i] = Slice(s, a, size(i))
    BY <2>1
  <2>3. f[i + 1] = IF s[i + 1] \in T THEN Append(f[i], s[i + 1]) ELSE f[i]
    BY <1>3, <2>1
  <2>4. CASE a < i + 1 /\ i + 1 <= a + n
    <3> DEFINE m == i - a
    <3>1. size(i) = m /\ size(i + 1) = m + 1 /\ m \in Nat /\ a + m <= Len(s) /\ a + (m + 1) = i + 1
      BY <2>1, <2>4
    <3>2. f[i + 1] = Append(Slice(s, a, m), s[i + 1])
      BY <2>1, <2>2, <2>3, <2>4, <3>1
    <3>3. Append(Slice(s, a, m), s[i + 1]) = Slice(s, a, m + 1)
      <4>1. Slice(s, a, m) \in Seq(A) /\ Len(Slice(s, a, m)) = m
        <5> HIDE DEF m
        <5> QED
          BY <3>1, SliceTyped
      <4>2. \A k \in 1 .. m : Slice(s, a, m)[k] = Slice(s, a, m + 1)[k]
        BY <3>1 DEF Slice
      <4>3. Slice(s, a, m + 1)[m + 1] = s[i + 1]
        BY <3>1 DEF Slice
      <4>8. m + 1 \in Nat /\ a + (m + 1) <= Len(s)
        BY <2>1, <3>1
      <4>5. s[i + 1] \in A
        BY <1>1, <2>1
      <4> HIDE DEF m
      <4>4. Slice(s, a, m + 1) \in Seq(A) /\ Len(Slice(s, a, m + 1)) = m + 1
        BY <4>8, SliceFacts
      <4>6. /\ Append(Slice(s, a, m), s[i + 1]) \in Seq(A)
            /\ Len(Append(Slice(s, a, m), s[i + 1])) = m + 1
            /\ \A k \in 1 .. m + 1 : Append(Slice(s, a, m), s[i + 1])[k]
                   = IF k <= m THEN Slice(s, a, m)[k] ELSE s[i + 1]
        BY <4>1, <4>5, AppendProperties
      <4>7. \A k \in 1 .. m + 1 : Append(Slice(s, a, m), s[i + 1])[k] = Slice(s, a, m + 1)[k]
        <5>1. \A k \in 1 .. m + 1 : (k <= m /\ k \in 1 .. m) \/ (k = m + 1 /\ ~(k <= m))
          BY <3>1
        <5> QED
          BY <4>2, <4>3, <4>6, <5>1
      <4> QED
        BY <3>1, <4>4, <4>6, <4>7, SeqEqual
    <3> QED
      BY <3>1, <3>2, <3>3
  <2>5. CASE ~(a < i + 1 /\ i + 1 <= a + n)
    <3>1. s[i + 1] \notin T
      BY <2>1, <2>5
    <3>2. size(i + 1) = size(i)
      BY <2>1, <2>5
    <3> QED
      BY <2>2, <2>3, <3>1, <3>2
  <2> QED
    BY <2>4, <2>5
<1>6. S \in SUBSET Nat
  OBVIOUS
<1>7. S = Nat
  <2> HIDE DEF S
  <2> QED
    BY <1>4, <1>5, <1>6, SetInduction
<1>8. Good(Len(s))
  <2>1. Len(s) \in S
    BY <1>1, <1>7
  <2> HIDE DEF Good
  <2> QED
    BY <2>1
<1>9. size(Len(s)) = n
  BY <1>1
<1> QED
  BY <1>8, <1>9

LEMMA SelectSlice ==
    ASSUME NEW A, NEW s \in Seq(A), NEW T, NEW a \in Nat, NEW n \in Nat, a + n <= Len(s),
           \A k \in 1 .. Len(s) : s[k] \in T <=> a < k /\ k <= a + n
    PROVE  SelectIn(s, T) = Slice(s, a, n)
<1>1. PICK f : Selects(f, s, T) /\ SelectIn(s, T) = f[Len(s)]
  BY SelectInIs
<1> QED
  BY <1>1, SelectsSlice

\* The same, with one name for what is selected.
SelectsRun(s, T, a, n) == \A k \in 1 .. Len(s) : s[k] \in T <=> a < k /\ k <= a + n

LEMMA SelectRun ==
    ASSUME NEW A, NEW s \in Seq(A), NEW T, NEW a \in Nat, NEW n \in Nat, a + n <= Len(s),
           SelectsRun(s, T, a, n)
    PROVE  SelectIn(s, T) = Slice(s, a, n)
  BY SelectSlice DEF SelectsRun

\* A set of places that holds every place before one of its own is 1 .. c.
LEMMA Cut ==
    ASSUME NEW n \in Nat, NEW D \in SUBSET (1 .. n),
           \A k \in D : \A j \in 1 .. n : j < k => j \in D
    PROVE  \E c \in 0 .. n : \A k \in 1 .. n : k \in D <=> k <= c
<1>1. CASE D = {}
  <2>1. 0 \in 0 .. n /\ \A k \in 1 .. n : k \in D <=> k <= 0
    BY <1>1
  <2> QED
    BY <2>1
<1>2. CASE D # {}
  <2>1. Max(D) \in D /\ Max(D) \in 1 .. n /\ \A j \in D : Max(D) >= j
    BY <1>2, MaxBounded
  <2>2. ASSUME NEW k \in 1 .. n PROVE k \in D <=> k <= Max(D)
    <3>1. Max(D) \in Nat /\ k \in Nat
      BY <2>1
    <3>2. k <= Max(D) => k = Max(D) \/ k < Max(D)
      BY <3>1
    <3>3. k \in D => k <= Max(D)
      BY <2>1, <3>1
    <3> QED
      BY <2>1, <3>2, <3>3
  <2> QED
    BY <2>1, <2>2
<1> QED
  BY <1>1, <1>2

\* The smaller of two numbers.
LEMMA MinTwo ==
    ASSUME NEW a \in Int, NEW b \in Int
    PROVE  Min({a, b}) = IF a <= b THEN a ELSE b
<1> DEFINE m == IF a <= b THEN a ELSE b
           M == Min({a, b})
<1>1. m \in {a, b} /\ \A j \in {a, b} : m <= j
  OBVIOUS
<1>2. M \in {a, b} /\ \A j \in {a, b} : M <= j
  BY <1>1 DEF Min
<1>3. M \in Int /\ m \in Int /\ M <= m /\ m <= M
  BY <1>1, <1>2
<1> QED
  BY <1>3

-----------------------------------------------------------------------------
(***************************************************************************)
(* What is read of the source. The events from a start on and behind a     *)
(* cursor follow the first lo of the tape, and n of them lie at or before  *)
(* a frontier: an ordered source makes both of them consecutive.           *)
(***************************************************************************)

Least(a, b) == IF a <= b THEN a ELSE b

Places(tape, start, through, after, lo, n) ==
    /\ lo \in Nat /\ n \in Nat /\ lo + n <= Len(tape)
    /\ \A k \in 1 .. Len(tape) : (start <= tape[k].ts /\ After(tape[k], after)) <=> lo < k
    /\ \A k \in 1 .. Len(tape) : lo < k => (tape[k].ts <= through <=> k <= lo + n)

Cursor == Nat \cup {NoCursor}

LEMMA TapeFacts ==
    ASSUME NEW channel \in DOMAIN Source, NEW tape, tape = Source[channel]
    PROVE  /\ tape \in Seq(MarketEvent) /\ Len(tape) \in Nat /\ DOMAIN tape = 1 .. Len(tape)
           /\ \A k \in 1 .. Len(tape) : /\ tape[k] \in MarketEvent /\ tape[k] \in ToSet(tape)
                                        /\ tape[k].ts \in Int /\ tape[k].sequence \in Nat
                                        /\ tape[k].price \in Int
           /\ \A i, j \in 1 .. Len(tape) : i < j =>
                 tape[i].sequence < tape[j].sequence /\ tape[i].ts <= tape[j].ts
<1>1. tape \in Seq(MarketEvent)
  BY SourceAssumption
<1>2. Len(tape) \in Nat /\ DOMAIN tape = 1 .. Len(tape)
  BY <1>1, LenProperties
<1>3. \A k \in 1 .. Len(tape) : tape[k] \in MarketEvent
  BY <1>1, ElementOfSeq
<1>4. \A k \in 1 .. Len(tape) : tape[k] \in ToSet(tape)
  BY <1>2 DEF ToSet
<1>5. \A i, j \in 1 .. Len(tape) : i < j =>
                 tape[i].sequence < tape[j].sequence /\ tape[i].ts <= tape[j].ts
  BY <1>2, SourceAssumption
<1> QED
  BY <1>1, <1>2, <1>3, <1>4, <1>5 DEF MarketEvent

LEMMA PlacesExist ==
    ASSUME NEW channel \in DOMAIN Source, NEW tape, tape = Source[channel],
           NEW start \in Int, NEW through \in Int, NEW after \in Cursor
    PROVE  \E lo, n : Places(tape, start, through, after, lo, n)
<1> DEFINE before == {k \in 1 .. Len(tape) : ~(start <= tape[k].ts /\ After(tape[k], after))}
           seen == {k \in 1 .. Len(tape) : tape[k].ts <= through}
<1>1. /\ Len(tape) \in Nat
      /\ \A k \in 1 .. Len(tape) : tape[k].ts \in Int /\ tape[k].sequence \in Nat
      /\ \A i, j \in 1 .. Len(tape) : i < j =>
            tape[i].sequence < tape[j].sequence /\ tape[i].ts <= tape[j].ts
  BY TapeFacts
<1>2. \E c \in 0 .. Len(tape) : \A k \in 1 .. Len(tape) : k \in before <=> k <= c
  <2>1. ASSUME NEW k \in before, NEW j \in 1 .. Len(tape), j < k PROVE j \in before
    <3>1. tape[j].sequence < tape[k].sequence /\ tape[j].ts <= tape[k].ts /\ k \in 1 .. Len(tape)
      BY <1>1, <2>1
    <3>2. CASE ~(start <= tape[k].ts)
      <4>1. ~(start <= tape[j].ts)
        BY <1>1, <3>1, <3>2
      <4> QED
        BY <4>1
    <3>3. CASE ~After(tape[k], after)
      <4>1. after \in Nat /\ ~(tape[k].sequence > after) /\ after # NoCursor
        BY <3>3 DEF After, Cursor
      <4>2. ~(tape[j].sequence > after)
        BY <1>1, <3>1, <4>1
      <4> QED
        BY <4>1, <4>2 DEF After
    <3> QED
      BY <3>2, <3>3
  <2>2. before \in SUBSET (1 .. Len(tape))
    OBVIOUS
  <2> HIDE DEF before
  <2> QED
    BY <1>1, <2>1, <2>2, Cut
<1>3. \E c \in 0 .. Len(tape) : \A k \in 1 .. Len(tape) : k \in seen <=> k <= c
  <2>1. ASSUME NEW k \in seen, NEW j \in 1 .. Len(tape), j < k PROVE j \in seen
    <3>1. tape[j].ts <= tape[k].ts /\ k \in 1 .. Len(tape) /\ tape[k].ts <= through
      BY <1>1, <2>1
    <3>2. tape[j].ts <= through
      BY <1>1, <3>1
    <3> QED
      BY <3>2
  <2>2. seen \in SUBSET (1 .. Len(tape))
    OBVIOUS
  <2> HIDE DEF seen
  <2> QED
    BY <1>1, <2>1, <2>2, Cut
<1>4. PICK lo \in 0 .. Len(tape) : \A k \in 1 .. Len(tape) : k \in before <=> k <= lo
  BY <1>2
<1>5. PICK hi \in 0 .. Len(tape) : \A k \in 1 .. Len(tape) : k \in seen <=> k <= hi
  BY <1>3
<1> DEFINE n == IF lo <= hi THEN hi - lo ELSE 0
<1>6. lo \in Nat /\ n \in Nat /\ lo + n <= Len(tape)
  BY <1>1
<1>7. ASSUME NEW k \in 1 .. Len(tape)
      PROVE  (start <= tape[k].ts /\ After(tape[k], after)) <=> lo < k
  <2>1. k \in before <=> ~(start <= tape[k].ts /\ After(tape[k], after))
    OBVIOUS
  <2>2. k <= lo <=> ~(lo < k)
    OBVIOUS
  <2> QED
    BY <1>4, <2>1, <2>2
<1>8. ASSUME NEW k \in 1 .. Len(tape), lo < k PROVE tape[k].ts <= through <=> k <= lo + n
  <2>1. k \in seen <=> tape[k].ts <= through
    OBVIOUS
  <2>2. k <= hi <=> k <= lo + n
    BY <1>8
  <2> QED
    BY <1>5, <2>1, <2>2
<1> QED
  BY <1>6, <1>7, <1>8 DEF Places

\* A read stops at the limit or at the last event the source knows of.
LEMMA SourceReadIs ==
    ASSUME NEW channel \in DOMAIN Source, NEW tape, tape = Source[channel],
           NEW start, NEW through, NEW after, NEW lo, NEW n,
           Places(tape, start, through, after, lo, n),
           NEW limit \in Nat, NEW overshoot \in BOOLEAN,
           NEW last, overshoot => last = Len(tape) - lo, ~overshoot => last = n
    PROVE  /\ last \in Nat /\ n <= last /\ lo + last <= Len(tape)
           /\ SourceRead(channel, start, through, after, limit, overshoot)
                = Slice(tape, lo, Least(limit, last))
<1> DEFINE T == {e \in ToSet(tape) :
                   start <= e.ts /\ (e.ts <= through \/ overshoot) /\ After(e, after)}
           found == SelectIn(tape, T)
<1>1. /\ lo \in Nat /\ n \in Nat /\ lo + n <= Len(tape)
      /\ \A k \in 1 .. Len(tape) : (start <= tape[k].ts /\ After(tape[k], after)) <=> lo < k
      /\ \A k \in 1 .. Len(tape) : lo < k => (tape[k].ts <= through <=> k <= lo + n)
  BY DEF Places
<1>2. /\ tape \in Seq(MarketEvent) /\ Len(tape) \in Nat
      /\ \A k \in 1 .. Len(tape) : tape[k] \in ToSet(tape)
  BY TapeFacts
<1>3. last \in Nat /\ n <= last /\ lo + last <= Len(tape)
  BY <1>1, <1>2
<1>4. ASSUME NEW k \in 1 .. Len(tape) PROVE tape[k] \in T <=> lo < k /\ k <= lo + last
  <2>1. tape[k] \in T <=> lo < k /\ (tape[k].ts <= through \/ overshoot)
    BY <1>1, <1>2
  <2>2. CASE overshoot
    <3>1. k <= lo + last
      BY <1>1, <1>2, <2>2
    <3> QED
      BY <2>1, <2>2, <3>1
  <2>3. CASE ~overshoot
    <3>1. last = n
      BY <2>3
    <3> QED
      BY <1>1, <2>1, <2>3, <3>1
  <2> QED
    BY <2>2, <2>3
<1>5. found = Slice(tape, lo, last)
  <2> HIDE DEF T
  <2> QED
    BY <1>1, <1>2, <1>3, <1>4, SelectSlice
<1>6. SourceRead(channel, start, through, after, limit, overshoot)
        = SubSeq(found, 1, Min({limit, Len(found)}))
  BY Zenon DEF SourceRead
<1> HIDE DEF found
<1>10. lo \in Nat /\ tape \in Seq(MarketEvent)
  BY <1>1, <1>2
<1>11. Len(found) = last
  BY <1>3, <1>5, <1>10, SliceFacts
<1>7. Len(found) = last /\ Min({limit, Len(found)}) = Least(limit, last)
  BY <1>3, <1>11, MinTwo DEF Least
<1>8. Least(limit, last) \in Nat /\ Least(limit, last) <= last
  BY <1>3 DEF Least
<1>9. SubSeq(found, 1, Least(limit, last)) = Slice(tape, lo, Least(limit, last))
  <2> DEFINE c == Least(limit, last)
  <2>1. c \in Nat /\ c <= last
    BY <1>8
  <2>3. last \in Nat /\ lo + last <= Len(tape)
    BY <1>3
  <2> HIDE DEF c, T
  <2>2. SubSeq(Slice(tape, lo, last), 1, c) = Slice(tape, lo, c)
    BY <1>10, <2>1, <2>3, SubSlice
  <2> QED
    BY <1>5, <2>2 DEF c
<1> QED
  BY <1>3, <1>6, <1>7, <1>9

\* The filter keeps the events at or before the frontier, up to the limit.
LEMMA VisibleIs ==
    ASSUME NEW channel \in DOMAIN Source, NEW tape, tape = Source[channel],
           NEW context, NEW after, NEW lo, NEW n,
           Places(tape, context.start, context.through, after, lo, n),
           NEW m \in Nat, lo + m <= Len(tape), NEW limit \in Nat
    PROVE  Visible(Slice(tape, lo, m), context, after, limit)
             = Slice(tape, lo, Least(limit, Least(m, n)))
<1> DEFINE events == Slice(tape, lo, m)
           T == {e \in ToSet(events) :
                   context.start <= e.ts /\ e.ts <= context.through /\ After(e, after)}
           kept == SelectIn(events, T)
           size == Least(m, n)
<1>1. /\ lo \in Nat /\ n \in Nat /\ lo + n <= Len(tape)
      /\ \A k \in 1 .. Len(tape) :
            (context.start <= tape[k].ts /\ After(tape[k], after)) <=> lo < k
      /\ \A k \in 1 .. Len(tape) : lo < k => (tape[k].ts <= context.through <=> k <= lo + n)
  BY DEF Places
<1>2. tape \in Seq(MarketEvent) /\ Len(tape) \in Nat
  BY TapeFacts
<1>12. lo \in Nat /\ tape \in Seq(MarketEvent)
  BY <1>1, <1>2
<1>3. /\ events \in Seq(MarketEvent) /\ Len(events) = m /\ DOMAIN events = 1 .. m
      /\ \A k \in 1 .. m : lo + k \in 1 .. Len(tape) /\ events[k] = tape[lo + k]
  BY <1>12, SliceFacts
<1>4. size \in Nat /\ size <= m /\ size <= n /\ (size = m \/ size = n)
  BY <1>1 DEF Least
<1>5. ASSUME NEW k \in 1 .. m PROVE events[k] \in T <=> 0 < k /\ k <= 0 + size
  <2>1. events[k] \in ToSet(events)
    BY <1>3 DEF ToSet
  <2>2. lo < lo + k /\ 0 < k
    BY <1>1
  <2>3. events[k] \in T <=> tape[lo + k].ts <= context.through
    BY <1>1, <1>3, <2>1, <2>2
  <2>4. tape[lo + k].ts <= context.through <=> lo + k <= lo + n
    BY <1>1, <1>3, <2>2
  <2>5. lo + k <= lo + n <=> k <= size
    BY <1>1, <1>4
  <2> QED
    BY <1>4, <2>2, <2>3, <2>4, <2>5
<1>6. kept = Slice(events, 0, size)
  <2> HIDE DEF T, events, size
  <2> QED
    <3>1. 0 \in Nat /\ 0 + size <= Len(events) /\ 1 .. Len(events) = 1 .. m
      BY <1>3, <1>4
    <3> QED
      BY <1>3, <1>4, <1>5, <3>1, SelectSlice
<1>7. Slice(events, 0, size) = Slice(tape, lo, size)
  <2>1. 0 + size <= m /\ lo + 0 = lo
    BY <1>1, <1>4
  <2> HIDE DEF size
  <2> QED
    BY <1>1, <1>4, <2>1, SliceSlice
<1>8. Visible(events, context, after, limit) = SubSeq(kept, 1, Min({limit, Len(kept)}))
  BY Zenon DEF Visible
<1> HIDE DEF kept, size
<1>13. lo + size <= Len(tape)
  BY <1>1, <1>2, <1>4
<1>14. Len(kept) = size
  BY <1>4, <1>6, <1>7, <1>12, <1>13, SliceFacts
<1>9. Len(kept) = size /\ Min({limit, Len(kept)}) = Least(limit, size)
  BY <1>4, <1>14, MinTwo DEF Least
<1>10. Least(limit, size) \in Nat /\ Least(limit, size) <= size
  BY <1>4 DEF Least
<1>11. SubSeq(kept, 1, Least(limit, size)) = Slice(tape, lo, Least(limit, size))
  <2> DEFINE c == Least(limit, size)
  <2>1. c \in Nat /\ c <= size
    BY <1>10
  <2> HIDE DEF c
  <2>2. SubSeq(Slice(tape, lo, size), 1, c) = Slice(tape, lo, c)
    BY <1>4, <1>12, <1>13, <2>1, SubSlice
  <2> QED
    BY <1>6, <1>7, <2>2 DEF c
<1> QED
  BY <1>8, <1>9, <1>11 DEF size

\* The size events behind the first lo, as a page shows them.
Projected(tape, lo, size, context) ==
    [i \in 1 .. size |-> Project(tape[lo + i], context)]

\* A page of events, whether or not the source overshoots.
LEMMA EventPageIs ==
    ASSUME NEW q, q.channel \in DOMAIN Source, q.limit \in Nat \ {0},
           NEW tape, tape = Source[q.channel],
           NEW context, NEW after, NEW lo, NEW n,
           Places(tape, context.start, context.through, after, lo, n),
           NEW overshoot \in BOOLEAN,
           NEW size, size = Least(q.limit, n),
           NEW page, page = EventPage(q, context, after, overshoot)
    PROVE  /\ size \in Nat /\ size <= n
           /\ page.items = Projected(tape, lo, size, context)
           /\ page.next = IF size < q.limit THEN NoCursor ELSE tape[lo + size].sequence
<1> DEFINE last == IF overshoot THEN Len(tape) - lo ELSE n
           m == Least(q.limit, last)
           events == Slice(tape, lo, size)
<1>1. lo \in Nat /\ n \in Nat /\ lo + n <= Len(tape)
  BY DEF Places
<1>2. tape \in Seq(MarketEvent) /\ Len(tape) \in Nat
  BY TapeFacts
<1>3. /\ last \in Nat /\ n <= last /\ lo + last <= Len(tape)
      /\ SourceRead(q.channel, context.start, context.through, after, q.limit, overshoot)
           = Slice(tape, lo, m)
  <2> HIDE DEF last
  <2> QED
    BY SourceReadIs DEF last
<1>4. size \in Nat /\ size <= n /\ size <= q.limit
  BY <1>1 DEF Least
<1>5. m \in Nat /\ lo + m <= Len(tape) /\ Least(q.limit, Least(m, n)) = size
  <2> HIDE DEF last
  <2> QED
    BY <1>1, <1>2, <1>3 DEF Least
<1>6. Visible(Slice(tape, lo, m), context, after, q.limit) = events
  <2> HIDE DEF m
  <2> QED
    BY <1>5, VisibleIs
<1>7. /\ events \in Seq(MarketEvent) /\ Len(events) = size /\ DOMAIN events = 1 .. size
      /\ \A k \in 1 .. size : events[k] = tape[lo + k]
  <2>1. lo + size <= Len(tape) /\ lo \in Nat /\ size \in Nat /\ tape \in Seq(MarketEvent)
    BY <1>1, <1>2, <1>4
  <2> HIDE DEF m, last
  <2>2. events \in Seq(MarketEvent)
    BY <2>1, SliceFacts
  <2>3. Len(events) = size
    BY <2>1, SliceFacts
  <2>4. DOMAIN events = 1 .. size
    BY DEF Slice
  <2>5. \A k \in 1 .. size : events[k] = tape[lo + k]
    BY DEF Slice
  <2> QED
    BY <2>2, <2>3, <2>4, <2>5
<1> HIDE DEF events, m
<1>8. page = [items |-> [i \in DOMAIN events |-> Project(events[i], context)],
              next |-> NextCursor(events, q.limit), frontier |-> FrontierPayload(context)]
  BY <1>3, <1>6, Zenon DEF EventPage
<1>9. page.items = Projected(tape, lo, size, context)
  BY <1>7, <1>8 DEF Projected
<1>10. page.next = IF size < q.limit THEN NoCursor ELSE tape[lo + size].sequence
  <2>1. CASE size < q.limit
    BY <1>7, <1>8, <2>1 DEF NextCursor
  <2>2. CASE ~(size < q.limit)
    <3>1. size \in 1 .. size /\ events # <<>>
      BY <1>4, <1>7, <2>2
    <3> QED
      BY <1>7, <1>8, <2>2, <3>1 DEF NextCursor, Last
  <2> QED
    BY <2>1, <2>2
<1> QED
  BY <1>4, <1>9, <1>10

-----------------------------------------------------------------------------
(***************************************************************************)
(* The order of a finite set of integers. The rank of an element is the    *)
(* number of smaller ones.                                                 *)
(***************************************************************************)

Rank(S, x) == Cardinality({y \in S : y < x})

LEMMA RankFacts ==
    ASSUME NEW S \in SUBSET Int, IsFiniteSet(S), NEW x \in S
    PROVE  /\ IsFiniteSet({y \in S : y < x})
           /\ Rank(S, x) \in Nat /\ Rank(S, x) < Cardinality(S) /\ Cardinality(S) \in Nat
           /\ \A y \in S : x < y => Rank(S, x) < Rank(S, y)
<1> DEFINE B(z) == {y \in S : y < z}
<1>1. ASSUME NEW T \in SUBSET S, NEW z \in S, z \notin T
      PROVE  /\ IsFiniteSet(T) /\ Cardinality(T) \in Nat
             /\ \A U \in SUBSET S : T \cup {z} \subseteq U => Cardinality(T) < Cardinality(U)
  <2>1. IsFiniteSet(T) /\ Cardinality(T) \in Nat
    BY FS_Subset, FS_CardinalityType
  <2>2. Cardinality(T \cup {z}) = Cardinality(T) + 1
    BY <1>1, <2>1, FS_AddElement
  <2>3. ASSUME NEW U \in SUBSET S, T \cup {z} \subseteq U PROVE Cardinality(T) < Cardinality(U)
    <3>1. IsFiniteSet(U)
      BY FS_Subset
    <3>2. Cardinality(U) \in Nat
      BY <3>1, FS_CardinalityType
    <3>3. T \cup {z} \in SUBSET U
      BY <2>3
    <3>4. Cardinality(T \cup {z}) <= Cardinality(U)
      BY <3>1, <3>3, FS_Subset
    <3> QED
      BY <2>1, <2>2, <3>2, <3>4
  <2> QED
    BY <2>1, <2>3
<1>2. B(x) \in SUBSET S /\ x \notin B(x) /\ S \in SUBSET S /\ B(x) \cup {x} \subseteq S
  OBVIOUS
<1>3. IsFiniteSet(B(x)) /\ Cardinality(B(x)) \in Nat /\ Cardinality(B(x)) < Cardinality(S)
  <2> HIDE DEF B
  <2> QED
    BY <1>1, <1>2
<1>4. ASSUME NEW y \in S, x < y PROVE Cardinality(B(x)) < Cardinality(B(y))
  <2>1. ASSUME NEW z \in B(x) PROVE z \in B(y)
    <3>1. z \in Int /\ x \in Int /\ y \in Int /\ z < x
      OBVIOUS
    <3>2. z < y
      BY <1>4, <3>1
    <3> QED
      BY <3>2
  <2>2. x \in B(y) /\ B(y) \in SUBSET S
    BY <1>4
  <2> HIDE DEF B
  <2>3. B(x) \cup {x} \subseteq B(y)
    BY <2>1, <2>2
  <2> QED
    BY <1>1, <1>2, <2>2, <2>3
<1>5. Cardinality(S) \in Nat
  BY FS_CardinalityType
<1> QED
  BY <1>3, <1>4, <1>5 DEF Rank

\* Every element stands at the place that its rank gives.
LEMMA AscendingIs ==
    ASSUME NEW S \in SUBSET Int, IsFiniteSet(S), NEW order, order = Ascending(S)
    PROVE  /\ order \in Seq(S) /\ Len(order) = Cardinality(S) /\ Cardinality(S) \in Nat
           /\ \A n \in 1 .. Cardinality(S) : order[n] \in S /\ Rank(S, order[n]) = n - 1
           /\ \A x \in S : Rank(S, x) + 1 \in 1 .. Cardinality(S) /\ order[Rank(S, x) + 1] = x
<1> DEFINE size == Cardinality(S)
           f == [x \in S |-> Rank(S, x) + 1]
<1>1. /\ size \in Nat
      /\ \A x \in S : Rank(S, x) \in Nat /\ Rank(S, x) < size
      /\ \A x, y \in S : x < y => Rank(S, x) < Rank(S, y)
  BY RankFacts, FS_CardinalityType
<1> HIDE DEF size
<1>2. f \in [S -> 1 .. size]
  BY <1>1
<1>3. ASSUME NEW x \in S, NEW y \in S, Rank(S, x) = Rank(S, y) PROVE x = y
  <2>1. x \in Int /\ y \in Int /\ (x < y \/ y < x \/ x = y)
    OBVIOUS
  <2>2. ~(Rank(S, x) < Rank(S, y)) /\ ~(Rank(S, y) < Rank(S, x))
    BY <1>1, <1>3
  <2> QED
    BY <1>1, <2>1, <2>2
<1>4. f \in Injection(S, 1 .. size)
  <2>1. ASSUME NEW x \in S, NEW y \in S, f[x] = f[y] PROVE x = y
    BY <1>1, <1>3, <2>1
  <2> QED
    BY <1>2, <2>1 DEF Injection, IsInjective
<1>5. IsFiniteSet(1 .. size) /\ Cardinality(1 .. size) = size
  BY <1>1, FS_Interval
<1>6. f \in Surjection(S, 1 .. size)
  BY <1>4, <1>5, FS_Injection DEF size
<1>7. \A n \in 1 .. size : \E x \in S : f[x] = n
  BY <1>6 DEF Surjection
<1>8. ASSUME NEW n \in 1 .. size
      PROVE  order[n] \in S /\ Rank(S, order[n]) = n - 1
  <2>1. PICK x \in S : f[x] = n
    BY <1>7
  <2>2. Rank(S, x) = n - 1
    BY <1>1, <2>1
  <2>3. order[n] = CHOOSE z \in S : Rank(S, z) = n - 1
    BY DEF Ascending, Rank, size
  <2> QED
    BY <2>2, <2>3
<1>9. order \in Seq(S) /\ Len(order) = size
  <2>1. order = [n \in 1 .. size |-> order[n]]
    BY DEF Ascending, size
  <2>2. order \in [1 .. size -> S]
    BY <1>8, <2>1
  <2> QED
    BY <1>1, <2>2, SeqDef, LenProperties
<1>10. ASSUME NEW x \in S
       PROVE  Rank(S, x) + 1 \in 1 .. size /\ order[Rank(S, x) + 1] = x
  <2>1. Rank(S, x) + 1 \in 1 .. size /\ (Rank(S, x) + 1) - 1 = Rank(S, x)
    BY <1>1
  <2>2. order[Rank(S, x) + 1] \in S /\ Rank(S, order[Rank(S, x) + 1]) = Rank(S, x)
    BY <1>8, <2>1
  <2> QED
    BY <1>3, <2>1, <2>2
<1> QED
  BY <1>1, <1>8, <1>9, <1>10 DEF size

\* The first m of them.
FirstRanks(S, m) == {x \in S : Rank(S, x) < m}

TakesFirst(first, S, m) ==
    first \in Seq(S) /\ {first[i] : i \in DOMAIN first} = FirstRanks(S, m)

LEMMA FirstOf ==
    ASSUME NEW S \in SUBSET Int, IsFiniteSet(S), NEW m \in Nat, NEW order, order = Ascending(S),
           NEW first, first = SubSeq(order, 1, Min({m, Len(order)}))
    PROVE  TakesFirst(first, S, m)
<1> DEFINE size == Cardinality(S)
           c == Least(m, size)
<1>1. /\ order \in Seq(S) /\ Len(order) = size /\ size \in Nat
      /\ \A n \in 1 .. size : order[n] \in S /\ Rank(S, order[n]) = n - 1
      /\ \A x \in S : Rank(S, x) + 1 \in 1 .. size /\ order[Rank(S, x) + 1] = x
  BY AscendingIs
<1>2. \A x \in S : Rank(S, x) \in Nat
  BY RankFacts
<1> HIDE DEF size
<1>3. Min({m, Len(order)}) = c /\ c \in Nat /\ c <= size /\ c <= m /\ (c = m \/ c = size)
  BY <1>1, MinTwo DEF Least
<1> HIDE DEF c
<1>4. \A i \in 1 .. c : i \in 1 .. size /\ order[i] \in S
  BY <1>1, <1>3
<1>5. first = SubSeq(order, 1, c)
  BY <1>3
<1>6. first \in Seq(S) /\ Len(first) = c /\ \A i \in 1 .. c : first[i] = order[i]
  <2>1. \A i \in 1 .. c : order[i] \in S
    BY <1>4
  <2>2. /\ SubSeq(order, 1, c) \in Seq(S)
        /\ Len(SubSeq(order, 1, c)) = IF 1 <= c THEN c - 1 + 1 ELSE 0
        /\ \A i \in 1 .. c - 1 + 1 : SubSeq(order, 1, c)[i] = order[1 + i - 1]
    BY <1>3, <2>1, SubSeqProperties
  <2>3. c - 1 + 1 = c /\ (IF 1 <= c THEN c ELSE 0) = c /\ \A i \in 1 .. c : 1 + i - 1 = i
    BY <1>3
  <2> QED
    BY <1>5, <2>2, <2>3
<1>7. ASSUME NEW i \in 1 .. c PROVE order[i] \in S /\ Rank(S, order[i]) < m
  <2>1. Rank(S, order[i]) = i - 1 /\ order[i] \in S
    BY <1>1, <1>4
  <2> QED
    BY <1>3, <2>1
<1>8. ASSUME NEW x \in S, Rank(S, x) < m PROVE \E i \in 1 .. c : order[i] = x
  <2>1. Rank(S, x) + 1 \in 1 .. size /\ order[Rank(S, x) + 1] = x /\ Rank(S, x) \in Nat
    BY <1>1, <1>2
  <2>2. Rank(S, x) + 1 \in 1 .. c
    BY <1>1, <1>3, <1>8, <2>1
  <2> QED
    BY <2>1, <2>2
<1>9. DOMAIN first = 1 .. c
  BY <1>6, LenProperties
<1>10. {first[i] : i \in DOMAIN first} = {order[i] : i \in 1 .. c}
  <2>1. \A i \in 1 .. c : first[i] = order[i]
    BY <1>6
  <2> QED
    BY <1>9, <2>1
<1>11. {order[i] : i \in 1 .. c} = {x \in S : Rank(S, x) < m}
  <2>1. ASSUME NEW x \in S, Rank(S, x) < m PROVE x \in {order[i] : i \in 1 .. c}
    <3>1. PICK i \in 1 .. c : order[i] = x
      BY <1>8, <2>1
    <3> QED
      BY <3>1
  <2>2. ASSUME NEW i \in 1 .. c PROVE order[i] \in {x \in S : Rank(S, x) < m}
    BY <1>7
  <2> QED
    BY <2>1, <2>2
<1> QED
  BY <1>6, <1>10, <1>11 DEF FirstRanks, TakesFirst

-----------------------------------------------------------------------------
(***************************************************************************)
(* Whole intervals                                                         *)
(***************************************************************************)

LEMMA DivFloor ==
    ASSUME NEW x \in Int, NEW n \in Nat \ {0}
    PROVE  x \div n \in Int /\ (x \div n) * n <= x /\ x < (x \div n) * n + n
  OBVIOUS

LEMMA Prod == ASSUME NEW a \in Int, NEW b \in Int, a < b, NEW n \in Nat \ {0} PROVE a * n + n <= b * n
<1>1. PICK d \in Nat : b = a + 1 + d
  <2>1. b - a - 1 \in Nat /\ b = a + 1 + (b - a - 1)
    OBVIOUS
  <2> QED BY <2>1
<1>2. b * n = a * n + n + d * n
  BY <1>1
<1>3. d * n \in Nat
  OBVIOUS
<1>4. a * n \in Int
  OBVIOUS
<1> QED
  BY <1>2, <1>3, <1>4
LEMMA DivMono ==
    ASSUME NEW x \in Int, NEW y \in Int, x <= y, NEW n \in Nat \ {0}
    PROVE  x \div n <= y \div n
<1>1. /\ x \div n \in Int /\ (x \div n) * n <= x /\ x < (x \div n) * n + n
      /\ y \div n \in Int /\ (y \div n) * n <= y /\ y < (y \div n) * n + n
  BY DivFloor
<1> DEFINE a == x \div n
           b == y \div n
<1> SUFFICES ASSUME b < a PROVE FALSE
  BY <1>1
<1>2. b * n + n <= a * n
  BY <1>1, Prod
<1>3. b * n \in Int /\ a * n \in Int
  BY <1>1
<1> QED
  BY <1>1, <1>2, <1>3

-----------------------------------------------------------------------------
(***************************************************************************)
(* Candles. The buckets of an ordered tape follow each other, so the       *)
(* buckets of a part of the trades that has more of them than the limit    *)
(* are complete up to the limit.                                           *)
(***************************************************************************)

\* Candles are made of trades, on intervals of some length.
CandleQuery(q, context) ==
    /\ q.interval \in Nat \ {0} /\ q.limit \in Nat \ {0}
    /\ context.origin \in Int

Trades == Source["TRADES"]

LEMMA BucketFacts ==
    ASSUME NEW q, NEW context, CandleQuery(q, context)
    PROVE  /\ \A k \in 1 .. Len(Trades) : BucketOf(q, context, Trades[k]) \in Int
           /\ \A i, j \in 1 .. Len(Trades) : i < j =>
                 BucketOf(q, context, Trades[i]) <= BucketOf(q, context, Trades[j])
<1> DEFINE at(k) == Trades[k].ts - context.origin
<1>1. /\ \A k \in 1 .. Len(Trades) : Trades[k].ts \in Int
      /\ \A i, j \in 1 .. Len(Trades) : i < j => Trades[i].ts <= Trades[j].ts
  BY TapeFacts, SourceAssumption DEF Trades
<1>2. context.origin \in Int /\ q.interval \in Nat \ {0}
  BY DEF CandleQuery
<1>3. ASSUME NEW k \in 1 .. Len(Trades)
      PROVE  at(k) \in Int /\ BucketOf(q, context, Trades[k]) = at(k) \div q.interval
  BY <1>1, <1>2 DEF BucketOf
<1>4. \A i, j \in 1 .. Len(Trades) : i < j => at(i) <= at(j)
  BY <1>1, <1>2
<1> HIDE DEF at
<1>5. ASSUME NEW k \in 1 .. Len(Trades) PROVE BucketOf(q, context, Trades[k]) \in Int
  BY <1>2, <1>3, DivFloor
<1>6. ASSUME NEW i \in 1 .. Len(Trades), NEW j \in 1 .. Len(Trades), i < j
      PROVE  BucketOf(q, context, Trades[i]) <= BucketOf(q, context, Trades[j])
  BY <1>2, <1>3, <1>4, <1>6, DivMono
<1> QED
  BY <1>5, <1>6

\* The buckets of a part of the trades.
BucketSet(q, context, lo, k) == {BucketOf(q, context, Trades[lo + i]) : i \in 1 .. k}

LEMMA BucketsOf ==
    ASSUME NEW q, NEW context, CandleQuery(q, context),
           NEW lo \in Nat, NEW k \in Nat, lo + k <= Len(Trades),
           NEW B, B = Buckets(q, context, Slice(Trades, lo, k))
    PROVE  /\ B \in SUBSET Int /\ IsFiniteSet(B)
           /\ B = BucketSet(q, context, lo, k)
<1> DEFINE f == [i \in 1 .. k |-> BucketOf(q, context, Trades[lo + i])]
<1>1. DOMAIN Slice(Trades, lo, k) = 1 .. k /\ \A i \in 1 .. k : Slice(Trades, lo, k)[i] = Trades[lo + i]
  BY DEF Slice
<1>2. \A b : b \in B <=> \E i \in 1 .. k : b = BucketOf(q, context, Trades[lo + i])
  BY <1>1 DEF Buckets
<1>3. \A i \in 1 .. k : lo + i \in 1 .. Len(Trades)
  BY TapeFacts, SourceAssumption DEF Trades
<1>4. B \in SUBSET Int
  BY <1>2, <1>3, BucketFacts
<1>5. f \in Surjection(1 .. k, B)
  <2>1. \A i \in 1 .. k : f[i] \in B
    BY <1>2
  <2>2. f \in [1 .. k -> B]
    BY <2>1
  <2>3. \A b \in B : \E i \in 1 .. k : f[i] = b
    BY <1>2
  <2> HIDE DEF f
  <2> QED
    BY <2>2, <2>3 DEF Surjection
<1>6. IsFiniteSet(1 .. k)
  BY FS_Interval
<1> HIDE DEF f
<1>7. B = BucketSet(q, context, lo, k)
  BY <1>2 DEF BucketSet
<1> QED
  BY <1>4, <1>5, <1>6, <1>7, FS_Surjection

\* The trades of the pages read: a part of those at or before the frontier,
\* all of them or enough of them.
LEMMA CandleTradesIs ==
    ASSUME NEW q, NEW context, CandleQuery(q, context), NEW overshoot \in BOOLEAN,
           NEW lo, NEW n, Places(Trades, context.start, context.through, NoCursor, lo, n)
    PROVE  \E k \in 0 .. n :
             /\ CandleTrades(q, context, overshoot) = Slice(Trades, lo, k)
             /\ k = n \/ BucketsSuffice(Buckets(q, context, Slice(Trades, lo, k)), q.limit)
<1> DEFINE last == IF overshoot THEN Len(Trades) - lo ELSE n
           all == SourceRead("TRADES", context.start, context.through, NoCursor,
                             Len(Trades), overshoot)
           read(m) == Visible(SubSeq(all, 1, Min({m * PageSize, Len(all)})), context,
                              NoCursor, Len(all))
           done == {m \in 0 .. Len(all) + 1 :
                       \/ BucketsSuffice(Buckets(q, context, read(m)), q.limit)
                       \/ m * PageSize > Len(all)}
<1>1. lo \in Nat /\ n \in Nat /\ lo + n <= Len(Trades)
  BY DEF Places
<1>2. Trades \in Seq(MarketEvent) /\ Len(Trades) \in Nat /\ "TRADES" \in DOMAIN Source
  BY TapeFacts, SourceAssumption DEF Trades
<1>3. /\ last \in Nat /\ n <= last /\ lo + last <= Len(Trades)
      /\ all = Slice(Trades, lo, Least(Len(Trades), last))
  <2>1. (overshoot => last = Len(Trades) - lo) /\ (~overshoot => last = n)
    OBVIOUS
  <2> HIDE DEF last
  <2> QED
    BY <1>2, <2>1, SourceReadIs DEF Trades
<1> HIDE DEF last, all
<1>4. all = Slice(Trades, lo, last) /\ Len(all) = last
  <2>1. Least(Len(Trades), last) = last
    BY <1>1, <1>2, <1>3 DEF Least
  <2> QED
    BY <1>1, <1>2, <1>3, <2>1, SliceFacts
<1>5. ASSUME NEW m \in Nat
      PROVE  /\ read(m) = Slice(Trades, lo, Least(m * PageSize, n))
             /\ m * PageSize \in Nat /\ Least(m * PageSize, n) \in 0 .. n
  <2>1. m * PageSize \in Nat
    BY QueryAssumption
  <2> DEFINE size == m * PageSize
             part == Least(size, last)
  <2>2. size \in Nat
    BY <2>1
  <2> HIDE DEF size
  <2>3. Min({size, Len(all)}) = part
    BY <1>3, <1>4, <2>2, MinTwo DEF Least
  <2>4. part \in Nat /\ part <= last /\ lo + part <= Len(Trades)
    BY <1>1, <1>2, <1>3, <2>2 DEF Least
  <2>5. Least(last, Least(part, n)) = Least(size, n)
    BY <1>1, <1>3, <2>2 DEF Least
  <2> HIDE DEF part
  <2>6. SubSeq(Slice(Trades, lo, last), 1, part) = Slice(Trades, lo, part)
    BY <1>1, <1>2, <1>3, <2>4, SubSlice
  <2>7. Visible(Slice(Trades, lo, part), context, NoCursor, last)
          = Slice(Trades, lo, Least(last, Least(part, n)))
    BY <1>2, <1>3, <2>4, VisibleIs DEF Trades
  <2>8. read(m) = Slice(Trades, lo, Least(size, n))
    BY <1>4, <2>3, <2>5, <2>6, <2>7 DEF size
  <2>9. Least(size, n) \in 0 .. n
    BY <1>1, <2>2 DEF Least
  <2> QED
    BY <2>1, <2>8, <2>9 DEF size
<1>6. CandleTrades(q, context, overshoot) = read(Min(done))
  BY Zenon DEF CandleTrades, Trades, all
<1>7. Min(done) \in done /\ Min(done) \in Nat
  <2>1. done \in SUBSET Nat
    BY <1>3, <1>4
  <2>2. last + 1 \in done
    <3>1. last + 1 \in 0 .. Len(all) + 1
      BY <1>3, <1>4
    <3>2. (last + 1) * PageSize > Len(all)
      <4>1. last + 1 \in Nat /\ PageSize \in Nat /\ PageSize >= 1 /\ Len(all) = last /\ last \in Nat
        BY <1>3, <1>4, QueryAssumption
      <4>2. PICK d \in Nat : PageSize = 1 + d
        <5>1. PageSize - 1 \in Nat /\ PageSize = 1 + (PageSize - 1)
          BY <4>1
        <5> QED
          BY <5>1
      <4>3. (last + 1) * PageSize = (last + 1) + (last + 1) * d
        BY <4>1, <4>2
      <4>4. (last + 1) * d \in Nat
        BY <4>1, <4>2
      <4> QED
        BY <4>1, <4>3, <4>4
    <3> QED
      BY <3>1, <3>2
  <2> HIDE DEF done
  <2> QED
    BY <2>1, <2>2, MinNat
<1> DEFINE m == Min(done)
           k == Least(m * PageSize, n)
<1>8. read(m) = Slice(Trades, lo, k) /\ m * PageSize \in Nat /\ k \in 0 .. n
  <2> HIDE DEF read, done
  <2> QED
    BY <1>5, <1>7
<1>9. BucketsSuffice(Buckets(q, context, read(m)), q.limit) \/ m * PageSize > last
  <2>1. m \in done
    BY <1>7
  <2> HIDE DEF m, read
  <2> QED
    BY <1>4, <2>1
<1> HIDE DEF m, read, done
<1>10. m * PageSize > last => k = n
  BY <1>1, <1>3, <1>8 DEF Least
<1> HIDE DEF k
<1>11. CandleTrades(q, context, overshoot) = Slice(Trades, lo, k)
  BY <1>6, <1>8 DEF m
<1> QED
  BY <1>8, <1>9, <1>10, <1>11

\* The trades of one bucket.
InBucket(q, context, b, trades) ==
    SelectIn(trades, {t \in ToSet(trades) : BucketOf(q, context, t) = b})

\* Of the k trades behind the first lo, those of bucket b are the m behind the
\* first c.
BucketPlaces(q, context, b, lo, k, c, m) ==
    \A i \in 1 .. k : BucketOf(q, context, Trades[lo + i]) = b <=> c < i /\ i <= c + m

LEMMA InBucketIs ==
    ASSUME NEW q, NEW context, NEW b \in Int,
           NEW lo \in Nat, NEW k \in Nat, lo + k <= Len(Trades),
           NEW c \in Nat, NEW m \in Nat, c + m <= k,
           BucketPlaces(q, context, b, lo, k, c, m)
    PROVE  InBucket(q, context, b, Slice(Trades, lo, k)) = Slice(Trades, lo + c, m)
<1> DEFINE part == Slice(Trades, lo, k)
           T == {t \in ToSet(part) : BucketOf(q, context, t) = b}
<1>1. Trades \in Seq(MarketEvent)
  BY TapeFacts, SourceAssumption DEF Trades
<1>2. /\ part \in Seq(MarketEvent) /\ Len(part) = k /\ DOMAIN part = 1 .. k
      /\ \A i \in 1 .. k : part[i] = Trades[lo + i]
  BY <1>1, SliceFacts
<1>3. \A i \in 1 .. k : part[i] \in T <=> c < i /\ i <= c + m
  <2>1. \A i \in 1 .. k : part[i] \in ToSet(part)
    BY <1>2 DEF ToSet
  <2> HIDE DEF part
  <2> QED
    BY <1>2, <2>1 DEF BucketPlaces
<1> HIDE DEF T
<1>4. SelectIn(part, T) = Slice(part, c, m)
  <2> HIDE DEF part
  <2> QED
    BY <1>2, <1>3, SelectSlice
<1>5. Slice(part, c, m) = Slice(Trades, lo + c, m)
  BY SliceSlice
<1> QED
  BY <1>4, <1>5, Zenon DEF InBucket, T

\* Enough trades have been read when those read fill more buckets than are
\* shown: the buckets shown and their trades are those of all the trades.
Enough(q, context, lo, k, n) ==
    \/ k = n
    \/ BucketsSuffice(Buckets(q, context, Slice(Trades, lo, k)), q.limit)

ShownBuckets(q, context, trades) ==
    {b \in Buckets(q, context, trades) : Rank(Buckets(q, context, trades), b) < q.limit}

LEMMA SameBuckets ==
    ASSUME NEW q, NEW context, CandleQuery(q, context),
           NEW lo \in Nat, NEW n \in Nat, lo + n <= Len(Trades),
           NEW k \in 0 .. n, Enough(q, context, lo, k, n)
    PROVE  ShownBuckets(q, context, Slice(Trades, lo, k))
             = ShownBuckets(q, context, Slice(Trades, lo, n))
<1> DEFINE B == Buckets(q, context, Slice(Trades, lo, k))
           C == Buckets(q, context, Slice(Trades, lo, n))
           bucket(i) == BucketOf(q, context, Trades[lo + i])
<1> SUFFICES ASSUME k # n, Cardinality(B) > q.limit
             PROVE  ShownBuckets(q, context, Slice(Trades, lo, k))
                      = ShownBuckets(q, context, Slice(Trades, lo, n))
  BY DEF Enough, BucketsSuffice
<1>1. k \in Nat /\ k <= n /\ lo + k <= Len(Trades) /\ Len(Trades) \in Nat
  BY TapeFacts, SourceAssumption DEF Trades
<1>2. /\ B \in SUBSET Int /\ IsFiniteSet(B)
      /\ \A b : b \in B <=> \E i \in 1 .. k : b = bucket(i)
  <2>1. B \in SUBSET Int /\ IsFiniteSet(B) /\ B = BucketSet(q, context, lo, k)
    BY <1>1, BucketsOf
  <2> HIDE DEF B
  <2> QED
    BY <2>1 DEF BucketSet
<1>3. /\ C \in SUBSET Int /\ IsFiniteSet(C)
      /\ \A b : b \in C <=> \E i \in 1 .. n : b = bucket(i)
  <2>1. C \in SUBSET Int /\ IsFiniteSet(C) /\ C = BucketSet(q, context, lo, n)
    BY BucketsOf
  <2> HIDE DEF C
  <2> QED
    BY <2>1 DEF BucketSet
<1> HIDE DEF B, C
<1>4. \A i \in 1 .. n : lo + i \in 1 .. Len(Trades) /\ bucket(i) \in Int
  BY <1>1, BucketFacts
<1>5. ASSUME NEW i \in 1 .. n, NEW j \in 1 .. n, i < j PROVE bucket(i) <= bucket(j)
  <2>1. lo + i \in 1 .. Len(Trades) /\ lo + j \in 1 .. Len(Trades) /\ lo + i < lo + j
    BY <1>1, <1>4, <1>5
  <2> QED
    BY <2>1, BucketFacts
<1> HIDE DEF bucket
<1>6. B \subseteq C
  BY <1>1, <1>2, <1>3
<1>7. ASSUME NEW x \in B, NEW y \in C, y \notin B PROVE x < y
  <2>1. PICK i \in 1 .. k : x = bucket(i)
    BY <1>2
  <2>2. PICK j \in 1 .. n : y = bucket(j)
    BY <1>3
  <2>3. ~(j \in 1 .. k)
    BY <1>2, <1>7, <2>2
  <2>4. i \in 1 .. n /\ i < j
    BY <1>1, <2>3
  <2>5. x <= y /\ x # y /\ x \in Int /\ y \in Int
    BY <1>2, <1>3, <1>5, <1>7, <2>1, <2>2, <2>4
  <2> QED
    BY <2>5
<1>8. ASSUME NEW x \in B PROVE Rank(C, x) = Rank(B, x)
  <2>1. ASSUME NEW y \in C, y < x PROVE y \in B
    <3>1. y \in Int /\ x \in Int /\ ~(x < y)
      BY <1>2, <1>3, <2>1
    <3> QED
      BY <1>7, <3>1
  <2>2. {y \in C : y < x} = {y \in B : y < x}
    BY <1>6, <2>1
  <2> QED
    BY <2>2 DEF Rank
<1>9. ASSUME NEW y \in C, y \notin B PROVE ~(Rank(C, y) < q.limit)
  <2>1. B \in SUBSET {z \in C : z < y}
    BY <1>6, <1>7, <1>9
  <2>2. IsFiniteSet({z \in C : z < y}) /\ Rank(C, y) \in Nat
    BY <1>3, RankFacts
  <2>3. Cardinality(B) <= Rank(C, y) /\ Cardinality(B) \in Nat
    BY <1>2, <2>1, <2>2, FS_Subset, FS_CardinalityType DEF Rank
  <2>4. q.limit \in Nat
    BY DEF CandleQuery
  <2> QED
    BY <2>2, <2>3, <2>4
<1>10. {b \in B : Rank(B, b) < q.limit} = {b \in C : Rank(C, b) < q.limit}
  BY <1>6, <1>8, <1>9
<1> QED
  BY <1>10 DEF ShownBuckets, B, C

LEMMA SameTrades ==
    ASSUME NEW q, NEW context, CandleQuery(q, context),
           NEW lo \in Nat, NEW n \in Nat, lo + n <= Len(Trades),
           NEW k \in 0 .. n, Enough(q, context, lo, k, n),
           NEW b \in ShownBuckets(q, context, Slice(Trades, lo, k))
    PROVE  InBucket(q, context, b, Slice(Trades, lo, k))
             = InBucket(q, context, b, Slice(Trades, lo, n))
<1> DEFINE B == Buckets(q, context, Slice(Trades, lo, k))
           bucket(i) == BucketOf(q, context, Trades[lo + i])
<1> SUFFICES ASSUME k # n, Cardinality(B) > q.limit
             PROVE  InBucket(q, context, b, Slice(Trades, lo, k))
                      = InBucket(q, context, b, Slice(Trades, lo, n))
  BY DEF Enough, BucketsSuffice
<1>1. k \in Nat /\ k <= n /\ lo + k <= Len(Trades) /\ Len(Trades) \in Nat
  BY TapeFacts, SourceAssumption DEF Trades
<1>2. /\ B \in SUBSET Int /\ IsFiniteSet(B)
      /\ \A x : x \in B <=> \E i \in 1 .. k : x = bucket(i)
  <2>1. B \in SUBSET Int /\ IsFiniteSet(B) /\ B = BucketSet(q, context, lo, k)
    BY <1>1, BucketsOf
  <2> HIDE DEF B
  <2> QED
    BY <2>1 DEF BucketSet
<1>3. b \in B /\ Rank(B, b) < q.limit /\ b \in Int
  BY <1>2 DEF ShownBuckets
<1> HIDE DEF B
<1>4. \A i \in 1 .. n : lo + i \in 1 .. Len(Trades) /\ bucket(i) \in Int
  BY <1>1, BucketFacts
<1>5. ASSUME NEW i \in 1 .. n, NEW j \in 1 .. n, i < j PROVE bucket(i) <= bucket(j)
  <2>1. lo + i \in 1 .. Len(Trades) /\ lo + j \in 1 .. Len(Trades) /\ lo + i < lo + j
    BY <1>1, <1>4, <1>5
  <2> QED
    BY <2>1, BucketFacts
<1> HIDE DEF bucket
\* A bucket of the part is above b.
<1>6. PICK x \in B : b < x
  <2> SUFFICES ASSUME \A x \in B : ~(b < x) PROVE FALSE
    OBVIOUS
  <2>1. B \in SUBSET ({y \in B : y < b} \cup {b})
    <3>1. \A y \in B : y \in Int /\ b \in Int /\ ~(b < y)
      BY <1>2, <1>3
    <3>2. \A y \in B : y < b \/ y = b
      BY <3>1
    <3> QED
      BY <3>2
  <2>2. IsFiniteSet({y \in B : y < b}) /\ Rank(B, b) \in Nat
    BY <1>2, <1>3, RankFacts
  <2>3. /\ IsFiniteSet({y \in B : y < b} \cup {b})
        /\ Cardinality({y \in B : y < b} \cup {b}) = Rank(B, b) + 1
    <3>1. b \notin {y \in B : y < b}
      BY <1>3
    <3> QED
      BY <2>2, <3>1, FS_AddElement DEF Rank
  <2>4. Cardinality(B) <= Rank(B, b) + 1 /\ Cardinality(B) \in Nat
    BY <1>2, <2>1, <2>3, FS_Subset, FS_CardinalityType
  <2>5. q.limit \in Nat
    BY DEF CandleQuery
  <2> QED
    BY <1>3, <2>2, <2>4, <2>5
<1>7. ASSUME NEW j \in 1 .. n, ~(j <= k) PROVE b < bucket(j)
  <2>1. PICK i \in 1 .. k : x = bucket(i)
    BY <1>2, <1>6
  <2>2. i \in 1 .. n /\ i < j
    BY <1>1, <1>7
  <2>3. bucket(i) <= bucket(j) /\ bucket(j) \in Int /\ x \in Int
    BY <1>2, <1>4, <1>5, <1>6, <2>2
  <2> QED
    BY <1>3, <1>6, <2>1, <2>3
\* The trades of bucket b are consecutive, and all among the first k.
<1>8. PICK c \in 0 .. n : \A i \in 1 .. n : bucket(i) < b <=> i <= c
  <2> DEFINE D == {i \in 1 .. n : bucket(i) < b}
  <2>1. ASSUME NEW i \in D, NEW j \in 1 .. n, j < i PROVE j \in D
    <3>1. bucket(j) <= bucket(i) /\ bucket(i) < b /\ bucket(i) \in Int /\ bucket(j) \in Int
      BY <1>4, <1>5, <2>1
    <3>2. bucket(j) < b
      BY <1>3, <3>1
    <3> QED
      BY <3>2
  <2>2. D \in SUBSET (1 .. n) /\ \A i \in 1 .. n : i \in D <=> bucket(i) < b
    OBVIOUS
  <2> HIDE DEF D
  <2>3. \E c \in 0 .. n : \A i \in 1 .. n : i \in D <=> i <= c
    BY <2>1, <2>2, Cut
  <2> QED
    BY <2>2, <2>3
<1>9. PICK d \in 0 .. n : \A i \in 1 .. n : bucket(i) <= b <=> i <= d
  <2> DEFINE D == {i \in 1 .. n : bucket(i) <= b}
  <2>1. ASSUME NEW i \in D, NEW j \in 1 .. n, j < i PROVE j \in D
    <3>1. bucket(j) <= bucket(i) /\ bucket(i) <= b /\ bucket(i) \in Int /\ bucket(j) \in Int
      BY <1>4, <1>5, <2>1
    <3>2. bucket(j) <= b
      BY <1>3, <3>1
    <3> QED
      BY <3>2
  <2>2. D \in SUBSET (1 .. n) /\ \A i \in 1 .. n : i \in D <=> bucket(i) <= b
    OBVIOUS
  <2> HIDE DEF D
  <2>3. \E d \in 0 .. n : \A i \in 1 .. n : i \in D <=> i <= d
    BY <2>1, <2>2, Cut
  <2> QED
    BY <2>2, <2>3
<1>10. c <= d /\ d <= k
  <2>1. c <= d
    <3> SUFFICES ASSUME d < c PROVE FALSE
      OBVIOUS
    <3>1. c \in 1 .. n /\ c <= c /\ ~(c <= d)
      OBVIOUS
    <3>2. bucket(c) < b /\ ~(bucket(c) <= b)
      BY <1>8, <1>9, <3>1
    <3> QED
      BY <1>3, <1>4, <3>1, <3>2
  <2>2. d <= k
    <3> SUFFICES ASSUME k < d PROVE FALSE
      BY <1>1
    <3>1. d \in 1 .. n /\ d <= d /\ ~(d <= k)
      BY <1>1
    <3>2. bucket(d) <= b /\ b < bucket(d)
      BY <1>7, <1>9, <3>1
    <3> QED
      BY <1>3, <1>4, <3>1, <3>2
  <2> QED
    BY <2>1, <2>2
<1>11. PICK m \in Nat : d = c + m
  <2>1. d - c \in Nat /\ d = c + (d - c)
    BY <1>10
  <2> QED
    BY <2>1
<1>12. \A i \in 1 .. n : bucket(i) = b <=> c < i /\ i <= c + m
  <2> SUFFICES ASSUME NEW i \in 1 .. n PROVE bucket(i) = b <=> c < i /\ i <= c + m
    OBVIOUS
  <2>1. (bucket(i) < b <=> i <= c) /\ (bucket(i) <= b <=> i <= c + m) /\ bucket(i) \in Int
    BY <1>4, <1>8, <1>9, <1>11
  <2> QED
    BY <1>3, <2>1
<1>13. c \in Nat /\ c + m <= k /\ c + m <= n
  BY <1>1, <1>10, <1>11
<1>14. InBucket(q, context, b, Slice(Trades, lo, n)) = Slice(Trades, lo + c, m)
  <2>1. BucketPlaces(q, context, b, lo, n, c, m)
    BY <1>12 DEF BucketPlaces, bucket
  <2> QED
    BY <1>3, <1>13, <2>1, InBucketIs
<1>15. InBucket(q, context, b, Slice(Trades, lo, k)) = Slice(Trades, lo + c, m)
  <2>1. \A i \in 1 .. k : bucket(i) = b <=> c < i /\ i <= c + m
    BY <1>1, <1>12
  <2>2. BucketPlaces(q, context, b, lo, k, c, m)
    BY <2>1 DEF BucketPlaces, bucket
  <2> QED
    BY <1>1, <1>3, <1>13, <2>2, InBucketIs
<1> QED
  BY <1>14, <1>15

\* What a candle shows depends on its trades alone.
LEMMA CandleDepends ==
    ASSUME NEW q, NEW context, NEW b, NEW trades, NEW others,
           InBucket(q, context, b, trades) = InBucket(q, context, b, others)
    PROVE  Candle(q, context, b, trades) = Candle(q, context, b, others)
<1> DEFINE of(mine) ==
        LET prices == {mine[i].price : i \in DOMAIN mine}
        IN  [offset |-> b * q.interval, open |-> mine[1].price, high |-> Max(prices),
             low |-> Min(prices), close |-> Last(mine).price, count |-> Len(mine),
             volume |-> Volume(mine)]
<1>1. \A s : Candle(q, context, b, s) = of(InBucket(q, context, b, s))
  BY Zenon DEF Candle, InBucket
<1> HIDE DEF of
<1> QED
  BY <1>1

\* The candles of a page, whatever pages of trades were read for it and
\* whether or not the source overshoots.
LEMMA CandlePageIs ==
    ASSUME NEW q, NEW context, CandleQuery(q, context), NEW overshoot \in BOOLEAN,
           NEW lo, NEW n, Places(Trades, context.start, context.through, NoCursor, lo, n),
           NEW trades, trades = Slice(Trades, lo, n),
           NEW page, page = CandlePage(q, context, overshoot)
    PROVE  /\ page.next = NoCursor
           /\ page.items \in Seq(ToSet(page.items))
           /\ ToSet(page.items) = {Candle(q, context, b, trades) :
                                      b \in ShownBuckets(q, context, trades)}
<1>1. lo \in Nat /\ n \in Nat /\ lo + n <= Len(Trades)
  BY DEF Places
<1>2. PICK k \in 0 .. n : /\ CandleTrades(q, context, overshoot) = Slice(Trades, lo, k)
                          /\ Enough(q, context, lo, k, n)
  BY CandleTradesIs DEF Enough
<1> DEFINE part == Slice(Trades, lo, k)
           B == Buckets(q, context, part)
           order == Ascending(B)
           first == SubSeq(order, 1, Min({q.limit, Len(order)}))
<1>3. page = [items |-> [i \in DOMAIN first |-> Candle(q, context, first[i], part)],
              next |-> NoCursor, frontier |-> FrontierPayload(context)]
  BY <1>2, Zenon DEF CandlePage
<1>4. /\ first \in Seq(B)
      /\ {first[i] : i \in DOMAIN first} = ShownBuckets(q, context, part)
      /\ B \in SUBSET Int
  <2>1. B \in SUBSET Int /\ IsFiniteSet(B)
    <3>1. k \in Nat /\ lo + k <= Len(Trades)
      BY <1>1, TapeFacts, SourceAssumption DEF Trades
    <3> QED
      BY <1>1, <3>1, BucketsOf
  <2>2. q.limit \in Nat
    BY DEF CandleQuery
  <2> HIDE DEF B
  <2>3. order = Ascending(B) /\ first = SubSeq(order, 1, Min({q.limit, Len(order)}))
    OBVIOUS
  <2> HIDE DEF order, first
  <2>4. TakesFirst(first, B, q.limit)
    BY <2>1, <2>2, <2>3, FirstOf
  <2> QED
    BY <2>1, <2>4 DEF TakesFirst, ShownBuckets, FirstRanks, B
<1> HIDE DEF part, B, order, first
<1>5. first \in Seq(Int) /\ DOMAIN first = 1 .. Len(first)
  BY <1>4, SeqMonotonic, LenProperties
<1>6. page.next = NoCursor /\ page.items = [i \in DOMAIN first |-> Candle(q, context, first[i], part)]
  BY <1>3
<1>7. page.items \in Seq(ToSet(page.items))
  <2>1. DOMAIN page.items = 1 .. Len(first) /\ Len(first) \in Nat
    BY <1>5, <1>6, LenProperties
  <2>2. page.items = [i \in 1 .. Len(first) |-> page.items[i]]
    BY <1>5, <1>6
  <2>3. \A i \in 1 .. Len(first) : page.items[i] \in ToSet(page.items)
    BY <2>1 DEF ToSet
  <2>4. page.items \in [1 .. Len(first) -> ToSet(page.items)]
    BY <2>2, <2>3
  <2> QED
    BY <2>1, <2>4, SeqDef
<1>8. ToSet(page.items) = {Candle(q, context, b, part) : b \in ShownBuckets(q, context, part)}
  <2>1. ToSet(page.items) = {Candle(q, context, first[i], part) : i \in DOMAIN first}
    BY <1>6 DEF ToSet
  <2>2. {Candle(q, context, first[i], part) : i \in DOMAIN first}
          = {Candle(q, context, b, part) : b \in {first[i] : i \in DOMAIN first}}
    OBVIOUS
  <2> QED
    BY <1>4, <2>1, <2>2
<1>9. \A b \in ShownBuckets(q, context, part) :
         Candle(q, context, b, part) = Candle(q, context, b, trades)
  BY <1>1, <1>2, SameTrades, CandleDepends DEF part
<1>10. ShownBuckets(q, context, part) = ShownBuckets(q, context, trades)
  BY <1>1, <1>2, SameBuckets DEF part
<1>11. {Candle(q, context, b, part) : b \in ShownBuckets(q, context, part)}
         = {Candle(q, context, b, trades) : b \in ShownBuckets(q, context, trades)}
  BY <1>9, <1>10
<1> QED
  BY <1>5, <1>6, <1>7, <1>8, <1>11

-----------------------------------------------------------------------------
(***************************************************************************)
(* Pages. A context is given by the query and what was read of the session *)
(* for it: the version of the row, and the events of a version no older.   *)
(***************************************************************************)

Reading == [row: Nat, at: Nat]

ContextAt(q, v) ==
    LET u == SetupOf(domain_events[q.session])
    IN  [version |-> v.row,
         through |-> Min({FrontierAtVersion(domain_events[q.session], v.at), u.play_end - 1}),
         start |-> u.play_start + q.offset, origin |-> u.play_start]

Owned(q) ==
    /\ sessions[q.session].status \notin Unpinned
    /\ sessions[q.session].principal = q.principal

Known(q, v) ==
    LET log == domain_events[q.session]
    IN  /\ Owned(q)
        /\ v \in Reading /\ 1 <= v.row /\ v.row <= v.at /\ v.at <= sessions[q.session].version
        /\ 1 \in IdxAtVersion(log, v.at)
        /\ FrontierAtVersion(log, v.at) \in Int
        /\ FrontierAtVersion(log, v.at) <= FrontierOf(log)

LEMMA QueryFacts ==
    ASSUME NEW q \in MarketQuery
    PROVE  /\ q.session \in SessionId /\ q.principal \in Principal /\ q.offset \in Nat
           /\ q.limit \in Nat \ {0} /\ q.interval \in Nat \ {0}
           /\ q.channel # "CANDLES" => q.channel \in DOMAIN Source
  BY QueryAssumption DEF MarketQuery

LEMMA WindowFacts ==
    ASSUME Inv, NEW q \in MarketQuery, Owned(q), NEW u, u = SetupOf(domain_events[q.session])
    PROVE  u.play_start \in Int /\ u.play_end \in Int /\ FrontierOf(domain_events[q.session]) \in Int
<1>1. q.session \in SessionId /\ sessions[q.session].status \notin Unpinned
  BY QueryFacts DEF Owned
<1>2. u = domain_events[q.session][1].payload.setup /\ FrontierOf(domain_events[q.session]) \in Int
  BY <1>1, PinnedFacts DEF WindowOK
<1>3. u \in Setup
  BY <1>1, <1>2 DEF Inv, SessionOK, PinOK
<1> QED
  BY <1>2, <1>3, SetupAssumption

LEMMA ContextFacts ==
    ASSUME Inv, NEW q \in MarketQuery, NEW v, Known(q, v),
           NEW u, u = SetupOf(domain_events[q.session]),
           NEW frontier, frontier = FrontierAtVersion(domain_events[q.session], v.at),
           NEW context, context = ContextAt(q, v)
    PROVE  /\ context.start \in Int /\ context.start = u.play_start + q.offset
           /\ context.through \in Int
           /\ context.origin = u.play_start /\ context.origin \in Int
           /\ context.version = v.row
           /\ frontier \in Int /\ u.play_start \in Int /\ u.play_end \in Int
           /\ \A x \in Int : x <= context.through <=> x <= frontier /\ x < u.play_end
<1>1. u.play_start \in Int /\ u.play_end \in Int
  BY WindowFacts DEF Known
<1>2. frontier \in Int
  BY DEF Known
<1>3. q.offset \in Nat
  BY QueryFacts
<1>4. /\ context.start = u.play_start + q.offset /\ context.origin = u.play_start
      /\ context.version = v.row /\ context.through = Min({frontier, u.play_end - 1})
  BY DEF ContextAt
<1>5. u.play_end - 1 \in Int
  BY <1>1
<1>6. context.through = IF frontier <= u.play_end - 1 THEN frontier ELSE u.play_end - 1
  BY <1>2, <1>4, <1>5, MinTwo
<1>7. \A x \in Int : x <= context.through <=> x <= frontier /\ x < u.play_end
  BY <1>1, <1>2, <1>6
<1>8. context.start \in Int /\ context.through \in Int
  BY <1>1, <1>2, <1>3, <1>4, <1>6
<1> QED
  BY <1>1, <1>2, <1>4, <1>7, <1>8

\* What was revealed of a channel at a version.
LEMMA RevealedIs ==
    ASSUME Inv, NEW q \in MarketQuery, NEW v, Known(q, v),
           NEW channel \in DOMAIN Source, NEW tape, tape = Source[channel],
           NEW after \in Cursor, NEW lo, NEW n,
           Places(tape, ContextAt(q, v).start, ContextAt(q, v).through, after, lo, n)
    PROVE  RevealedAt(q, v.at, channel, after) = Slice(tape, lo, n)
<1> DEFINE log == domain_events[q.session]
           u == SetupOf(log)
           frontier == FrontierAtVersion(log, v.at)
           context == ContextAt(q, v)
           T == {e \in ToSet(tape) :
                    /\ u.play_start + q.offset <= e.ts
                    /\ e.ts <= frontier /\ e.ts < u.play_end
                    /\ After(e, after)}
<1>1. RevealedAt(q, v.at, channel, after) = SelectIn(tape, T)
  BY Zenon DEF RevealedAt
<1>2. /\ context.start = u.play_start + q.offset
      /\ \A x \in Int : x <= context.through <=> x <= frontier /\ x < u.play_end
  BY ContextFacts
<1>3. /\ tape \in Seq(MarketEvent)
      /\ \A k \in 1 .. Len(tape) : tape[k] \in ToSet(tape) /\ tape[k].ts \in Int
  BY TapeFacts
<1>4. /\ lo \in Nat /\ n \in Nat /\ lo + n <= Len(tape)
      /\ \A k \in 1 .. Len(tape) : (context.start <= tape[k].ts /\ After(tape[k], after)) <=> lo < k
      /\ \A k \in 1 .. Len(tape) : lo < k => (tape[k].ts <= context.through <=> k <= lo + n)
  BY DEF Places
<1> HIDE DEF context, u, frontier, log
<1>5. ASSUME NEW k \in 1 .. Len(tape) PROVE tape[k] \in T <=> lo < k /\ k <= lo + n
  <2>1. /\ tape[k] \in ToSet(tape)
        /\ tape[k].ts <= context.through <=> tape[k].ts <= frontier /\ tape[k].ts < u.play_end
    BY <1>2, <1>3
  <2>2. tape[k] \in T <=> /\ context.start <= tape[k].ts /\ After(tape[k], after)
                         /\ tape[k].ts <= context.through
    BY <1>2, <2>1
  <2> QED
    BY <1>4, <2>2
<1> HIDE DEF T
<1>6. SelectsRun(tape, T, lo, n)
  BY <1>5 DEF SelectsRun
<1>7. tape \in Seq(MarketEvent) /\ lo \in Nat /\ n \in Nat /\ lo + n <= Len(tape)
  BY <1>3, <1>4
<1> QED
  BY <1>1, <1>6, <1>7, SelectRun

\* The candles of a version are those of its trades.
LEMMA CandlesAtIs ==
    ASSUME Inv, NEW q \in MarketQuery, NEW v, Known(q, v),
           NEW context, context = ContextAt(q, v),
           NEW trades, trades = RevealedAt(q, v.at, "TRADES", NoCursor)
    PROVE  CandlesAt(q, v.at) = {Candle(q, context, b, trades) :
                                  b \in ShownBuckets(q, context, trades)}
<1> DEFINE start == SetupOf(domain_events[q.session]).play_start
           place(t) == (t.ts - start) \div q.interval
           used == {place(t) : t \in ToSet(trades)}
           shown == {b \in used : Cardinality({c \in used : c < b}) < q.limit}
           bars(b) == SelectIn(trades, {t \in ToSet(trades) : place(t) = b})
           candle(b) == CandleOver(b * q.interval, bars(b))
<1>1. CandlesAt(q, v.at) = {candle(b) : b \in shown}
  BY Zenon DEF CandlesAt
<1>2. context.origin = start
  BY DEF ContextAt
<1>3. \A t : place(t) = BucketOf(q, context, t)
  BY <1>2 DEF BucketOf
<1>4. used = Buckets(q, context, trades)
  BY <1>3 DEF Buckets, ToSet
<1>5. shown = ShownBuckets(q, context, trades)
  BY <1>4, Zenon DEF ShownBuckets, Rank
<1>6. ASSUME NEW b PROVE candle(b) = Candle(q, context, b, trades)
  <2>1. bars(b) = SelectIn(trades, {t \in ToSet(trades) : BucketOf(q, context, t) = b})
    BY <1>3
  <2> DEFINE mine == bars(b)
  <2>2. {t.price : t \in ToSet(mine)} = {mine[i].price : i \in DOMAIN mine}
    <3> HIDE DEF mine
    <3> QED
      BY DEF ToSet
  <2>3. Candle(q, context, b, trades) =
           [offset |-> b * q.interval, open |-> mine[1].price,
            high |-> Max({mine[i].price : i \in DOMAIN mine}),
            low |-> Min({mine[i].price : i \in DOMAIN mine}),
            close |-> mine[Len(mine)].price, count |-> Len(mine), volume |-> Volume(mine)]
    BY <2>1, Zenon DEF Candle, Last
  <2>4. candle(b) = [offset |-> b * q.interval, open |-> mine[1].price,
                     close |-> mine[Len(mine)].price,
                     high |-> Max({t.price : t \in ToSet(mine)}),
                     low |-> Min({t.price : t \in ToSet(mine)}),
                     count |-> Len(mine), volume |-> Volume(mine)]
    BY DEF CandleOver
  <2> HIDE DEF mine, candle, bars
  <2> QED
    BY <2>2, <2>3, <2>4
<1> HIDE DEF candle, shown
<1> QED
  BY <1>1, <1>5, <1>6

-----------------------------------------------------------------------------
(***************************************************************************)
(* What a page shows                                                       *)
(***************************************************************************)

\* An item the session has revealed by the frontier.
ItemBehind(q, frontier, item) ==
    LET u == SetupOf(domain_events[q.session])
    IN  /\ u.play_start + item.offset \in Int
        /\ u.play_start + item.offset <= frontier
        /\ u.play_start + item.offset < u.play_end

\* An event as clients see it.
Seen(q, event) ==
    [offset |-> event.ts - SetupOf(domain_events[q.session]).play_start,
     price |-> event.price, quantity |-> event.quantity]

\* The size events behind the first lo of a tape, as clients see them.
SeenFrom(q, tape, lo, size) == [i \in 1 .. size |-> Seen(q, tape[lo + i])]

Item == [offset: Int, price: Int, quantity: Nat]

LEMMA SeenIs ==
    ASSUME Inv, NEW q \in MarketQuery, Owned(q), NEW event \in MarketEvent,
           NEW u, u = SetupOf(domain_events[q.session])
    PROVE  /\ Seen(q, event) \in Item
           /\ u.play_start + Seen(q, event).offset = event.ts
           /\ \A v : Project(event, ContextAt(q, v)) = Seen(q, event)
<1>1. u.play_start \in Int
  BY WindowFacts
<1>2. event.ts \in Int /\ event.price \in Int /\ event.quantity \in Nat
  BY DEF MarketEvent
<1>3. Seen(q, event).offset = event.ts - u.play_start
  BY DEF Seen
<1>4. u.play_start + (event.ts - u.play_start) = event.ts
  BY <1>1, <1>2
<1>5. Seen(q, event) \in Item
  BY <1>1, <1>2 DEF Seen, Item
<1>6. ASSUME NEW v PROVE Project(event, ContextAt(q, v)) = Seen(q, event)
  <2>1. ContextAt(q, v).origin = u.play_start
    BY DEF ContextAt
  <2> QED
    BY <2>1 DEF Project, Seen
<1> QED
  BY <1>3, <1>4, <1>5, <1>6

\* A page of events: behind the first lo, size of the n that are revealed.
PageSees(q, v, tape, after, page, lo, n, size) ==
    /\ Places(tape, ContextAt(q, v).start, ContextAt(q, v).through, after, lo, n)
    /\ size \in Nat /\ size <= n /\ lo \in Nat /\ n \in Nat /\ lo + n <= Len(tape)
    /\ size = Least(q.limit, n)
    /\ page.items = SeenFrom(q, tape, lo, size)
    /\ page.next = IF size < q.limit THEN NoCursor ELSE tape[lo + size].sequence

\* A page of events shows the first of those behind lo.
LEMMA EventsSeen ==
    ASSUME Inv, NEW q \in MarketQuery, NEW v, Known(q, v), q.channel # "CANDLES",
           NEW tape, tape = Source[q.channel], NEW after \in Cursor,
           NEW lo, NEW n,
           Places(tape, ContextAt(q, v).start, ContextAt(q, v).through, after, lo, n),
           NEW overshoot \in BOOLEAN, NEW size, size = Least(q.limit, n),
           NEW page, page = PageOf(q, ContextAt(q, v), after, overshoot)
    PROVE  PageSees(q, v, tape, after, page, lo, n, size)
<1> DEFINE context == ContextAt(q, v)
<1>1. q.channel \in DOMAIN Source /\ q.limit \in Nat \ {0}
  BY QueryFacts
<1>2. page = EventPage(q, context, after, overshoot)
  BY DEF PageOf
<1>3. lo \in Nat /\ n \in Nat /\ lo + n <= Len(tape)
  BY DEF Places
<1> HIDE DEF context
<1>4. /\ size \in Nat /\ size <= n
      /\ page.items = Projected(tape, lo, size, context)
      /\ page.next = IF size < q.limit THEN NoCursor ELSE tape[lo + size].sequence
  <2>1. Places(tape, context.start, context.through, after, lo, n)
    BY DEF context
  <2>2. size \in Nat
    BY <1>1, <1>2, <2>1, EventPageIs
  <2>3. size <= n
    BY <1>1, <1>2, <2>1, EventPageIs
  <2>4. page.items = Projected(tape, lo, size, context)
    BY <1>1, <1>2, <2>1, EventPageIs
  <2>5. page.next = IF size < q.limit THEN NoCursor ELSE tape[lo + size].sequence
    BY <1>1, <1>2, <2>1, EventPageIs
  <2> QED
    BY <2>2, <2>3, <2>4, <2>5
<1>5. ASSUME NEW i \in 1 .. size PROVE Project(tape[lo + i], context) = Seen(q, tape[lo + i])
  <2>1. lo + i \in 1 .. Len(tape)
    BY <1>1, <1>3, <1>4, TapeFacts
  <2>2. tape[lo + i] \in MarketEvent
    BY <1>1, <2>1, TapeFacts
  <2> QED
    BY <2>2, SeenIs DEF Known, context
<1>6. Projected(tape, lo, size, context) = SeenFrom(q, tape, lo, size)
  BY <1>5 DEF Projected, SeenFrom
<1> QED
  BY <1>3, <1>4, <1>6 DEF PageSees

LEMMA PageSeen ==
    ASSUME Inv, NEW q \in MarketQuery, NEW v, Known(q, v), q.channel # "CANDLES",
           NEW tape, tape = Source[q.channel], NEW after \in Cursor,
           NEW overshoot \in BOOLEAN,
           NEW page, page = PageOf(q, ContextAt(q, v), after, overshoot)
    PROVE  \E lo, n, size : PageSees(q, v, tape, after, page, lo, n, size)
<1> DEFINE context == ContextAt(q, v)
<1>1. q.channel \in DOMAIN Source /\ context.start \in Int /\ context.through \in Int
  BY ContextFacts, QueryFacts
<1> HIDE DEF context
<1>2. \E lo, n : Places(tape, context.start, context.through, after, lo, n)
  BY <1>1, PlacesExist
<1>3. PICK lo, n : Places(tape, context.start, context.through, after, lo, n)
  BY <1>2
<1>4. Places(tape, ContextAt(q, v).start, ContextAt(q, v).through, after, lo, n)
  BY <1>3 DEF context
<1>5. PageSees(q, v, tape, after, page, lo, n, Least(q.limit, n))
  BY <1>4, EventsSeen
<1> QED
  BY <1>5

\* A page names the frontier it was made for.
FrontierExact(q, version, page) ==
    page.frontier = Min({FrontierAtVersion(domain_events[q.session], version),
                         SetupOf(domain_events[q.session]).play_end - 1})
                      - SetupOf(domain_events[q.session]).play_start

LEMMA FrontierNamed ==
    ASSUME NEW q, NEW v, NEW after, NEW overshoot,
           NEW page, page = PageOf(q, ContextAt(q, v), after, overshoot)
    PROVE  FrontierExact(q, v.at, page)
<1> DEFINE context == ContextAt(q, v)
<1>1. page.frontier = FrontierPayload(context)
  <2> HIDE DEF context
  <2>1. page = PageOf(q, context, after, overshoot)
    BY DEF context
  <2> QED
    BY <2>1 DEF PageOf, CandlePage, EventPage
<1> QED
  BY <1>1 DEF FrontierExact, FrontierPayload, ContextAt

LEMMA PageIsExact ==
    ASSUME Inv, NEW q \in MarketQuery, NEW v, Known(q, v), NEW after \in Cursor,
           q.channel = "CANDLES" => after = NoCursor,
           NEW overshoot \in BOOLEAN,
           NEW page, page = PageOf(q, ContextAt(q, v), after, overshoot)
    PROVE  ExactAt(q, v.at, after, page)
<1> DEFINE context == ContextAt(q, v)
<1>1. /\ context.start \in Int /\ context.through \in Int /\ context.origin \in Int
      /\ q.limit \in Nat \ {0} /\ q.interval \in Nat \ {0}
  BY ContextFacts, QueryFacts
<1>4. FrontierExact(q, v.at, page)
  BY FrontierNamed
<1> HIDE DEF context
<1>2. CASE q.channel = "CANDLES"
  <2>1. "TRADES" \in DOMAIN Source /\ NoCursor \in Cursor
    BY SourceAssumption DEF Cursor
  <2>2. \E lo, n : Places(Trades, context.start, context.through, NoCursor, lo, n)
    BY <1>1, <2>1, PlacesExist DEF Trades
  <2>3. PICK lo, n : Places(Trades, context.start, context.through, NoCursor, lo, n)
    BY <2>2
  <2> DEFINE trades == Slice(Trades, lo, n)
  <2>4. page = CandlePage(q, context, overshoot) /\ CandleQuery(q, context)
    BY <1>1, <1>2 DEF PageOf, CandleQuery, context
  <2>5. ToSet(page.items) = {Candle(q, context, b, trades) :
                                b \in ShownBuckets(q, context, trades)}
    <3> HIDE DEF trades
    <3>1. trades = Slice(Trades, lo, n)
      BY DEF trades
    <3> QED
      BY <2>3, <2>4, <3>1, CandlePageIs
  <2>6. RevealedAt(q, v.at, "TRADES", NoCursor) = trades
    BY <2>1, <2>3, RevealedIs DEF Trades, context
  <2> HIDE DEF trades
  <2>7. CandlesAt(q, v.at) = {Candle(q, context, b, trades) :
                              b \in ShownBuckets(q, context, trades)}
    BY <2>6, CandlesAtIs DEF context
  <2> QED
    BY <1>2, <1>4, <2>5, <2>7, Zenon DEF ExactAt, FrontierExact
<1>3. CASE q.channel # "CANDLES"
  <2> DEFINE tape == Source[q.channel]
             revealed == RevealedAt(q, v.at, q.channel, after)
             origin == SetupOf(domain_events[q.session]).play_start
  <2>1. q.channel \in DOMAIN Source
    BY <1>3, QueryFacts
  <2>2. PICK lo, n, size : PageSees(q, v, tape, after, page, lo, n, size)
    BY <1>3, PageSeen
  <2>3. Places(tape, ContextAt(q, v).start, ContextAt(q, v).through, after, lo, n)
    BY <2>2 DEF PageSees
  <2>4. /\ size \in Nat /\ size <= n /\ lo \in Nat /\ n \in Nat /\ lo + n <= Len(tape)
        /\ page.items = SeenFrom(q, tape, lo, size) /\ size = Least(q.limit, n)
    BY <2>2 DEF PageSees
  <2>5. revealed = Slice(tape, lo, n)
    BY <2>1, <2>3, RevealedIs
  <2>6. Len(revealed) = n /\ \A i \in 1 .. n : revealed[i] = tape[lo + i]
    <3>1. tape \in Seq(MarketEvent)
      BY <2>1, TapeFacts
    <3>3. lo \in Nat /\ n \in Nat /\ lo + n <= Len(tape)
      BY <2>4
    <3> HIDE DEF tape, revealed
    <3>2. /\ Len(Slice(tape, lo, n)) = n
          /\ \A i \in 1 .. n : Slice(tape, lo, n)[i] = tape[lo + i]
      <4>1. Len(Slice(tape, lo, n)) = n
        BY <3>1, <3>3, SliceFacts
      <4> QED
        BY <4>1 DEF Slice
    <3> QED
      BY <2>5, <3>2
  <2>7. (IF Len(revealed) < q.limit THEN Len(revealed) ELSE q.limit) = size
    BY <1>1, <2>4, <2>6 DEF Least
  <2>8. ASSUME NEW i \in 1 .. size
        PROVE  Seen(q, tape[lo + i]) =
                 [offset |-> revealed[i].ts - origin, price |-> revealed[i].price,
                  quantity |-> revealed[i].quantity]
    <3>1. i \in 1 .. n
      BY <2>4
    <3>2. revealed[i] = tape[lo + i]
      BY <2>6, <3>1
    <3> QED
      BY <3>2 DEF Seen
  <2> HIDE DEF tape
  <2>9. page.items = [i \in 1 .. size |->
              [offset |-> revealed[i].ts - origin, price |-> revealed[i].price,
               quantity |-> revealed[i].quantity]]
    BY <2>4, <2>8 DEF SeenFrom
  <2> QED
    <3>1. FrontierExact(q, v.at, page) => (ExactAt(q, v.at, after, page) <=>
            page.items = [i \in 1 .. (IF Len(revealed) < q.limit THEN Len(revealed) ELSE q.limit) |->
              [offset |-> revealed[i].ts - origin, price |-> revealed[i].price,
               quantity |-> revealed[i].quantity]])
      BY <1>3, Zenon DEF ExactAt, FrontierExact
    <3> HIDE DEF revealed, origin
    <3> QED
      BY <1>4, <2>7, <2>9, <3>1
<1> QED
  BY <1>2, <1>3


\* No event lies behind the frontier a page was read at, and no candle starts
\* behind it.
PageBehind(q, frontier, page) ==
    /\ page.items \in Seq(ToSet(page.items))
    /\ \A item \in ToSet(page.items) : ItemBehind(q, frontier, item)

LEMMA SeenBehind ==
    ASSUME Inv, NEW q \in MarketQuery, NEW v, Known(q, v),
           NEW channel \in DOMAIN Source, NEW tape, tape = Source[channel],
           NEW after, NEW lo, NEW n,
           Places(tape, ContextAt(q, v).start, ContextAt(q, v).through, after, lo, n),
           NEW k \in 1 .. Len(tape), lo < k, k <= lo + n,
           NEW u, u = SetupOf(domain_events[q.session])
    PROVE  /\ tape[k] \in MarketEvent /\ tape[k].ts \in Int
           /\ tape[k].ts <= FrontierAtVersion(domain_events[q.session], v.at)
           /\ tape[k].ts < u.play_end
<1>1. tape[k] \in MarketEvent /\ tape[k].ts \in Int
  BY TapeFacts
<1>2. tape[k].ts <= ContextAt(q, v).through
  BY DEF Places
<1> QED
  BY <1>1, <1>2, ContextFacts

LEMMA PageIsBehind ==
    ASSUME Inv, NEW q \in MarketQuery, NEW v, Known(q, v), NEW after \in Cursor,
           NEW overshoot \in BOOLEAN,
           NEW page, page = PageOf(q, ContextAt(q, v), after, overshoot)
    PROVE  PageBehind(q, FrontierAtVersion(domain_events[q.session], v.at), page)
<1> DEFINE context == ContextAt(q, v)
           u == SetupOf(domain_events[q.session])
           frontier == FrontierAtVersion(domain_events[q.session], v.at)
<1>1. /\ context.start \in Int /\ context.through \in Int /\ context.origin \in Int
      /\ context.origin = u.play_start
      /\ q.limit \in Nat \ {0} /\ q.interval \in Nat \ {0}
      /\ frontier \in Int /\ u.play_start \in Int /\ u.play_end \in Int
  BY ContextFacts, QueryFacts
<1> HIDE DEF context, u, frontier
<1>2. CASE q.channel = "CANDLES"
  <2>1. "TRADES" \in DOMAIN Source /\ NoCursor \in Cursor
    BY SourceAssumption DEF Cursor
  <2>2. \E lo, n : Places(Trades, context.start, context.through, NoCursor, lo, n)
    BY <1>1, <2>1, PlacesExist DEF Trades
  <2>3. PICK lo, n : Places(Trades, context.start, context.through, NoCursor, lo, n)
    BY <2>2
  <2> DEFINE trades == Slice(Trades, lo, n)
  <2>4. page = CandlePage(q, context, overshoot) /\ CandleQuery(q, context)
    BY <1>1, <1>2 DEF PageOf, CandleQuery, context
  <2>5. /\ ToSet(page.items) = {Candle(q, context, b, trades) :
                                   b \in ShownBuckets(q, context, trades)}
        /\ page.items \in Seq(ToSet(page.items))
    <3> HIDE DEF trades
    <3>1. trades = Slice(Trades, lo, n)
      BY DEF trades
    <3> QED
      BY <2>3, <2>4, <3>1, CandlePageIs
  <2>7. lo \in Nat /\ n \in Nat /\ lo + n <= Len(Trades)
    BY <2>3 DEF Places
  <2>8. ASSUME NEW b \in ShownBuckets(q, context, trades)
        PROVE  ItemBehind(q, frontier, Candle(q, context, b, trades))
    <3>1. b \in Buckets(q, context, trades)
      BY <2>8 DEF ShownBuckets
    <3>2. PICK i \in 1 .. n : b = BucketOf(q, context, Trades[lo + i])
      <4>1. Buckets(q, context, trades) = BucketSet(q, context, lo, n)
        BY <2>4, <2>7, BucketsOf
      <4> QED
        BY <3>1, <4>1 DEF BucketSet
    <3> DEFINE k == lo + i
    <3>3. k \in 1 .. Len(Trades) /\ lo < k /\ k <= lo + n
      BY <2>1, <2>7, TapeFacts DEF Trades
    <3> HIDE DEF k
    <3>4. /\ Trades[k].ts \in Int
          /\ Trades[k].ts <= frontier /\ Trades[k].ts < u.play_end
      <4>1. Places(Trades, ContextAt(q, v).start, ContextAt(q, v).through, NoCursor, lo, n)
        BY <2>3 DEF context
      <4> QED
        BY <2>1, <3>3, <4>1, SeenBehind DEF Trades, frontier, u
    <3>5. b = (Trades[k].ts - u.play_start) \div q.interval
      BY <1>1, <3>2 DEF BucketOf, k
    <3>6. b \in Int /\ b * q.interval <= Trades[k].ts - u.play_start
      <4> DEFINE x == Trades[k].ts - u.play_start
      <4>1. x \in Int /\ b = x \div q.interval
        BY <1>1, <3>4, <3>5
      <4> HIDE DEF x
      <4>2. b \in Int /\ b * q.interval <= x
        BY <1>1, <4>1, DivFloor
      <4> QED
        BY <4>2 DEF x
    <3>7. Candle(q, context, b, trades).offset = b * q.interval
      BY DEF Candle
    <3>8. b * q.interval \in Int
      BY <1>1, <3>6
    <3>9. /\ u.play_start + b * q.interval \in Int
          /\ u.play_start + b * q.interval <= frontier
          /\ u.play_start + b * q.interval < u.play_end
      BY <1>1, <3>4, <3>6, <3>8
    <3> QED
      BY <3>7, <3>9 DEF ItemBehind, u
  <2> QED
    BY <2>5, <2>8 DEF PageBehind, frontier
<1>3. CASE q.channel # "CANDLES"
  <2> DEFINE tape == Source[q.channel]
  <2>1. q.channel \in DOMAIN Source
    BY <1>3, QueryFacts
  <2>2. PICK lo, n, size : PageSees(q, v, tape, after, page, lo, n, size)
    BY <1>3, PageSeen
  <2>3. Places(tape, ContextAt(q, v).start, ContextAt(q, v).through, after, lo, n)
    BY <2>2 DEF PageSees
  <2>4. /\ size \in Nat /\ size <= n /\ lo \in Nat /\ n \in Nat /\ lo + n <= Len(tape)
        /\ page.items = SeenFrom(q, tape, lo, size)
    BY <2>2 DEF PageSees
  <2>5. Len(tape) \in Nat
    BY <2>1, TapeFacts
  <2> HIDE DEF tape
  <2>6. DOMAIN page.items = 1 .. size /\ \A i \in 1 .. size : page.items[i] = Seen(q, tape[lo + i])
    BY <2>4 DEF SeenFrom
  <2>7. ASSUME NEW i \in 1 .. size PROVE ItemBehind(q, frontier, page.items[i])
    <3> DEFINE k == lo + i
    <3>1. k \in 1 .. Len(tape) /\ lo < k /\ k <= lo + n
      BY <2>4, <2>5
    <3>2. page.items[i] = Seen(q, tape[k])
      BY <2>6
    <3> HIDE DEF k
    <3>3. /\ tape[k] \in MarketEvent /\ tape[k].ts \in Int
          /\ tape[k].ts <= frontier /\ tape[k].ts < u.play_end
      BY <2>1, <2>3, <3>1, SeenBehind DEF tape, frontier, u
    <3>4. u.play_start + page.items[i].offset = tape[k].ts
      BY <3>2, <3>3, SeenIs DEF Known, u
    <3> QED
      BY <3>3, <3>4 DEF ItemBehind, u
  <2>8. page.items \in Seq(ToSet(page.items))
    <3>1. \A i \in 1 .. size : page.items[i] \in ToSet(page.items)
      BY <2>6 DEF ToSet
    <3>2. page.items = [i \in 1 .. size |-> page.items[i]]
      BY <2>4, <2>6 DEF SeenFrom
    <3>3. page.items \in [1 .. size -> ToSet(page.items)]
      BY <3>1, <3>2
    <3> QED
      BY <2>4, <3>3, SeqDef
  <2> QED
    BY <2>6, <2>7, <2>8 DEF PageBehind, ToSet, frontier
<1> QED
  BY <1>2, <1>3


-----------------------------------------------------------------------------
(***************************************************************************)
(* Walks. What a client keeps while it follows its cursor are the first    *)
(* events of the tape from its offset on, and the cursor is the last one.  *)
(***************************************************************************)

\* The events from an offset on are those behind the first base of the tape.
From(tape, start, base) ==
    /\ base \in Nat /\ base <= Len(tape)
    /\ \A j \in 1 .. Len(tape) : start <= tape[j].ts <=> base < j

Behind(tape, base, k, frontier, end) ==
    \A j \in 1 .. Len(tape) :
        base < j /\ j <= base + k => tape[j].ts <= frontier /\ tape[j].ts < end

CursorAt(tape, base, k) == IF k = 0 THEN NoCursor ELSE tape[base + k].sequence

\* A client that has kept k events.
WalkAt(q, tape, kept, cursor, base, k) ==
    LET u == SetupOf(domain_events[q.session])
    IN  /\ From(tape, u.play_start + q.offset, base)
        /\ k \in Nat /\ base + k <= Len(tape)
        /\ kept = SeenFrom(q, tape, base, k)
        /\ cursor = CursorAt(tape, base, k)
        /\ Behind(tape, base, k, FrontierOf(domain_events[q.session]), u.play_end)

\* Candles have no cursor.
Walk(q, kept, cursor) ==
    IF q.channel = "CANDLES"
    THEN kept = <<>> /\ cursor = NoCursor
    ELSE \E base, k : WalkAt(q, Source[q.channel], kept, cursor, base, k)

LEMMA SeenFromFacts ==
    ASSUME Inv, NEW q \in MarketQuery, Owned(q),
           NEW channel \in DOMAIN Source, NEW tape, tape = Source[channel],
           NEW lo \in Nat, NEW k \in Nat, lo + k <= Len(tape)
    PROVE  /\ SeenFrom(q, tape, lo, k) \in Seq(Item)
           /\ Len(SeenFrom(q, tape, lo, k)) = k
           /\ DOMAIN SeenFrom(q, tape, lo, k) = 1 .. k
<1>1. ASSUME NEW i \in 1 .. k PROVE Seen(q, tape[lo + i]) \in Item
  <2>1. lo + i \in 1 .. Len(tape)
    BY TapeFacts
  <2> QED
    BY <2>1, TapeFacts, SeenIs
<1>2. SeenFrom(q, tape, lo, k) \in [1 .. k -> Item]
  BY <1>1 DEF SeenFrom
<1>3. SeenFrom(q, tape, lo, k) \in Seq(Item)
  BY <1>2, SeqDef
<1>4. DOMAIN SeenFrom(q, tape, lo, k) = 1 .. k
  BY DEF SeenFrom
<1> QED
  BY <1>2, <1>3, <1>4, LenProperties

Adds(a, b, sum) == sum = a + b

Joined(q, tape, base, k, lo, m, both) ==
    SeenFrom(q, tape, base, k) \o SeenFrom(q, tape, lo, m) = SeenFrom(q, tape, base, both)

\* Two runs of events that follow each other are one.
LEMMA SeenOn ==
    ASSUME Inv, NEW q \in MarketQuery, Owned(q),
           NEW channel \in DOMAIN Source, NEW tape, tape = Source[channel],
           NEW base \in Nat, NEW k \in Nat, NEW m \in Nat, base + k + m <= Len(tape),
           NEW lo, Adds(base, k, lo), NEW both, Adds(k, m, both)
    PROVE  Joined(q, tape, base, k, lo, m, both)
<1> DEFINE a == SeenFrom(q, tape, base, k)
           b == SeenFrom(q, tape, lo, m)
           c == SeenFrom(q, tape, base, k + m)
<1> USE DEF Adds
<1>1. Len(tape) \in Nat /\ lo \in Nat /\ k + m \in Nat
  BY TapeFacts
<1>2. a \in Seq(Item) /\ Len(a) = k /\ b \in Seq(Item) /\ Len(b) = m
  <2>1. base + k <= Len(tape) /\ lo + m <= Len(tape)
    BY <1>1
  <2> QED
    BY <1>1, <2>1, SeenFromFacts
<1>3. c \in Seq(Item) /\ Len(c) = k + m
  <2>1. base + (k + m) <= Len(tape)
    BY <1>1
  <2> QED
    BY <1>1, <2>1, SeenFromFacts
<1>4. ASSUME NEW i \in 1 .. k + m PROVE (a \o b)[i] = c[i]
  <2>1. c[i] = Seen(q, tape[base + i])
    BY DEF SeenFrom
  <2>2. (a \o b)[i] = IF i <= k THEN a[i] ELSE b[i - k]
    <3> HIDE DEF a, b
    <3> QED
      BY <1>2, ConcatProperties
  <2>3. CASE i <= k
    <3>1. i \in 1 .. k
      BY <2>3
    <3>2. a[i] = Seen(q, tape[base + i])
      BY <3>1 DEF SeenFrom
    <3> QED
      BY <2>1, <2>2, <2>3, <3>2
  <2>4. CASE ~(i <= k)
    <3>1. i - k \in 1 .. m /\ lo + (i - k) = base + i
      BY <2>4
    <3>2. b[i - k] = Seen(q, tape[lo + (i - k)])
      BY <3>1 DEF SeenFrom
    <3> QED
      BY <2>1, <2>2, <2>4, <3>1, <3>2
  <2> QED
    BY <2>3, <2>4
<1> HIDE DEF a, b, c
<1>5. a \o b \in Seq(Item) /\ Len(a \o b) = k + m
  BY <1>2, ConcatProperties
<1>6. a \o b = c
  <2>1. /\ DOMAIN (a \o b) = 1 .. k + m /\ DOMAIN c = 1 .. k + m
        /\ a \o b = [i \in DOMAIN (a \o b) |-> (a \o b)[i]]
        /\ c = [i \in DOMAIN c |-> c[i]]
    BY <1>3, <1>5, LenProperties, SeqDef
  <2> QED
    BY <1>4, <2>1
<1> QED
  BY <1>6 DEF Joined, a, b, c

LEMMA FromExists ==
    ASSUME NEW channel \in DOMAIN Source, NEW tape, tape = Source[channel], NEW start \in Int
    PROVE  \E base : From(tape, start, base)
<1>1. NoCursor \in Cursor /\ 0 \in Int
  BY DEF Cursor
<1>2. PICK lo, n : Places(tape, start, 0, NoCursor, lo, n)
  BY <1>1, PlacesExist
<1>3. \A k : After(tape[k], NoCursor)
  BY DEF After
<1>4. Len(tape) \in Nat
  BY TapeFacts
<1>5. lo \in Nat /\ n \in Nat /\ lo + n <= Len(tape)
  BY <1>2 DEF Places
<1>6. lo <= Len(tape)
  BY <1>4, <1>5
<1>7. \A j \in 1 .. Len(tape) : start <= tape[j].ts <=> lo < j
  BY <1>2, <1>3 DEF Places
<1> QED
  BY <1>5, <1>6, <1>7 DEF From

\* The events behind a cursor go on where the walk has come to.
LEMMA WalkOn ==
    ASSUME NEW channel \in DOMAIN Source, NEW tape, tape = Source[channel],
           NEW start \in Int, NEW base, From(tape, start, base),
           NEW k \in Nat, base + k <= Len(tape),
           NEW through, NEW lo, NEW n,
           Places(tape, start, through, CursorAt(tape, base, k), lo, n)
    PROVE  lo = base + k
<1> DEFINE cursor == CursorAt(tape, base, k)
<1>1. /\ Len(tape) \in Nat
      /\ \A j \in 1 .. Len(tape) : tape[j].sequence \in Nat
      /\ \A i, j \in 1 .. Len(tape) : i < j => tape[i].sequence < tape[j].sequence
  BY TapeFacts
<1>2. base \in Nat /\ base <= Len(tape) /\ \A j \in 1 .. Len(tape) : start <= tape[j].ts <=> base < j
  BY DEF From
<1>3. /\ lo \in Nat /\ n \in Nat /\ lo + n <= Len(tape)
      /\ \A j \in 1 .. Len(tape) : (start <= tape[j].ts /\ After(tape[j], cursor)) <=> lo < j
  BY DEF Places
<1>4. ASSUME NEW j \in 1 .. Len(tape) PROVE (base < j /\ After(tape[j], cursor)) <=> base + k < j
  <2>1. CASE k = 0
    BY <1>2, <2>1 DEF After, CursorAt
  <2>2. CASE k # 0
    <3> DEFINE c == base + k
    <3>1. c \in 1 .. Len(tape) /\ cursor = tape[c].sequence
      BY <1>1, <1>2, <2>2 DEF CursorAt
    <3>2. base < c
      BY <1>2, <2>2
    <3> HIDE DEF c, cursor
    <3>3. tape[c].sequence \in Nat /\ tape[j].sequence \in Nat
      BY <1>1, <3>1
    <3>4. After(tape[j], cursor) <=> tape[j].sequence > tape[c].sequence
      BY <3>1, <3>3, QueryAssumption DEF After
    <3>5. tape[j].sequence > tape[c].sequence <=> c < j
      <4>1. CASE c < j
        BY <1>1, <3>1, <3>3, <4>1
      <4>2. CASE j < c
        <5>1. tape[j].sequence < tape[c].sequence
          BY <1>1, <3>1, <4>2
        <5> QED
          BY <3>3, <4>2, <3>1, <5>1
      <4>3. CASE c = j
        BY <3>3, <4>3
      <4> QED
        BY <3>1, <4>1, <4>2, <4>3
    <3> QED
      BY <1>2, <3>1, <3>2, <3>4, <3>5 DEF c
  <2> QED
    BY <2>1, <2>2
<1> HIDE DEF cursor
<1>5. \A j \in 1 .. Len(tape) : lo < j <=> base + k < j
  BY <1>2, <1>3, <1>4
<1>6. lo <= Len(tape) /\ base + k \in Nat
  BY <1>1, <1>2, <1>3
<1>7. CASE lo < base + k
  <2>1. base + k \in 1 .. Len(tape)
    BY <1>1, <1>3, <1>6, <1>7
  <2> QED
    BY <1>5, <1>6, <1>7, <2>1
<1>8. CASE base + k < lo
  <2>1. lo \in 1 .. Len(tape)
    BY <1>1, <1>3, <1>6, <1>8
  <2> QED
    BY <1>5, <1>3, <1>8, <2>1
<1> QED
  BY <1>3, <1>6, <1>7, <1>8


-----------------------------------------------------------------------------
(***************************************************************************)
(* The invariant. What a client asks with, what it was shown and what the  *)
(* cache holds all go back to a version the session has had.               *)
(***************************************************************************)

\* A request that has read the row, and one that has read the events as well.
RowRead(q, poll) ==
    \E n \in Nat : /\ Owned(q) /\ 1 <= n /\ n <= sessions[q.session].version
                  /\ poll = [stage |-> "events", version |-> n]

ContextRead(q, poll) ==
    \E v \in Reading, stage \in {"lookup", "read"} :
        Known(q, v) /\ poll = [stage |-> stage, context |-> ContextAt(q, v)]

PollOK(q, poll) == RowRead(q, poll) \/ ContextRead(q, poll)

LEMMA StageTells ==
    ASSUME NEW q, NEW poll, PollOK(q, poll)
    PROVE  IF poll.stage = "events" THEN RowRead(q, poll) ELSE ContextRead(q, poll)
<1>1. RowRead(q, poll) => poll.stage = "events"
  BY DEF RowRead
<1>2. ASSUME ContextRead(q, poll) PROVE poll.stage # "events"
  <2>1. PICK v \in Reading, stage \in {"lookup", "read"} :
           poll = [stage |-> stage, context |-> ContextAt(q, v)]
    BY <1>2 DEF ContextRead
  <2>2. poll.stage = stage
    BY <2>1
  <2>3. stage # "events"
    OBVIOUS
  <2> QED
    BY <2>2, <2>3
<1> QED
  BY <1>1, <1>2 DEF PollOK

\* A page shown is that of a reading the session has had. Only a page that
\* has more behind it moves the cursor.
ShownAs(q, shown, v) ==
    /\ Known(q, v) /\ shown.version = v.row
    /\ \E overshoot \in BOOLEAN :
          shown.page = PageOf(q, ContextAt(q, v), shown.after, overshoot)

ShownOK(q, shown, cursor) ==
    /\ shown.after \in Cursor
    /\ q.channel = "CANDLES" => shown.after = NoCursor
    /\ \E v \in Reading : ShownAs(q, shown, v)
    /\ shown.page.next = NoCursor => shown.after = cursor

\* A client that has not asked yet.
Fresh(reader) ==
    reader.poll = NoPoll /\ reader.cursor = NoCursor /\ reader.kept = <<>> /\ reader.shown = NoPage

ReaderShape(reader) ==
    /\ reader = [poll |-> reader.poll, polls |-> reader.polls, cursor |-> reader.cursor,
                 kept |-> reader.kept, shown |-> reader.shown]
    /\ reader.polls \in Nat

Served(q, reader) ==
    /\ Owned(q)
    /\ Walk(q, reader.kept, reader.cursor)
    /\ reader.poll # NoPoll => PollOK(q, reader.poll)
    /\ reader.shown # NoPage => ShownOK(q, reader.shown, reader.cursor)

ReaderOK(q, reader) == ReaderShape(reader) /\ (Fresh(reader) \/ Served(q, reader))

\* A cached page is the page of its key, whoever asked for it.
EntryOK(entry) ==
    \E q \in MarketQuery, v \in Reading, after \in Cursor, overshoot \in BOOLEAN :
        /\ Known(q, v)
        /\ q.channel = "CANDLES" => after = NoCursor
        /\ entry = [key |-> CacheKey(q, ContextAt(q, v), after),
                    page |-> PageOf(q, ContextAt(q, v), after, overshoot)]

\* The cache is a map.
KeysDiffer(entries) == \A e, f \in entries : e.key = f.key => e = f

MarketInv ==
    /\ Inv
    /\ DOMAIN readers = Reader
    /\ \A r \in Reader : ReaderOK(Query[r], readers[r])
    /\ \A entry \in cache : EntryOK(entry)
    /\ KeysDiffer(cache)

\* A session that is pinned keeps its owner and its setup, and its frontier
\* does not go back.
LEMMA OwnedStays ==
    ASSUME Inv, Inv', [Next]_vars, NEW q \in MarketQuery, Owned(q)
    PROVE  /\ Owned(q)'
           /\ SetupOf(domain_events'[q.session]) = SetupOf(domain_events[q.session])
           /\ FrontierOf(domain_events[q.session]) \in Int
           /\ FrontierOf(domain_events'[q.session]) \in Int
           /\ FrontierOf(domain_events[q.session]) <= FrontierOf(domain_events'[q.session])
           /\ Continues(sessions[q.session], sessions'[q.session],
                        domain_events[q.session], domain_events'[q.session])
<1> DEFINE s == q.session
<1>1. s \in SessionId /\ sessions[s].status \notin Unpinned /\ sessions[s].principal = q.principal
  BY QueryFacts DEF Owned
<1>2. /\ sessions'[s].status \notin Unpinned
      /\ SetupOf(domain_events'[s]) = SetupOf(domain_events[s])
      /\ Continues(sessions[s], sessions'[s], domain_events[s], domain_events'[s])
  BY <1>1, SetupKept
<1>3. sessions'[s].principal = sessions[s].principal
  BY <1>1, NextKeeps DEF KeepsStep, Keeps, Unpinned
<1>4. FrontierOf(domain_events[s]) \in Int
  BY <1>1, PinnedFacts DEF WindowOK
<1>5. FrontierOf(domain_events[s]) <= FrontierOf(domain_events'[s])
  <2>1. CASE Next
    <3>1. PinIdx(domain_events[s]) # {}
      BY <1>1 DEF Inv, SessionOK, PinOK
    <3> QED
      BY <1>1, <2>1, <3>1, NextExtends DEF AppendOnlyStep
  <2>2. CASE UNCHANGED vars
    <3>1. domain_events' = domain_events
      BY <2>2 DEF vars
    <3>2. \A n \in Int : n <= n
      OBVIOUS
    <3> QED
      BY <1>4, <3>1, <3>2, Zenon
  <2> QED
    BY <2>1, <2>2
<1>6. FrontierOf(domain_events'[s]) \in Int
  <2>1. PinOK(sessions'[s], domain_events'[s]) /\ WindowOK(sessions'[s].status, domain_events'[s][1].payload.setup, FrontierOf(domain_events'[s]))
    BY <1>1, <1>2 DEF Inv, SessionOK
  <2> QED
    BY <2>1 DEF WindowOK
<1> QED
  BY <1>1, <1>2, <1>3, <1>4, <1>5, <1>6 DEF Owned

\* What a version shows is settled once the session has it.
LEMMA KnownStays ==
    ASSUME Inv, Inv', [Next]_vars, NEW q \in MarketQuery, NEW v \in Reading, Known(q, v)
    PROVE  Known(q, v)' /\ ContextAt(q, v)' = ContextAt(q, v)
<1> DEFINE s == q.session
           log == domain_events[s]
           log2 == domain_events'[s]
<1>1. /\ Owned(q) /\ v.at \in Nat /\ v.at <= sessions[s].version
      /\ 1 \in IdxAtVersion(log, v.at)
      /\ FrontierAtVersion(log, v.at) \in Int /\ FrontierAtVersion(log, v.at) <= FrontierOf(log)
  BY DEF Known, Reading
<1>2. /\ Owned(q)'
      /\ SetupOf(log2) = SetupOf(log)
      /\ FrontierOf(log) \in Int /\ FrontierOf(log2) \in Int
      /\ FrontierOf(log) <= FrontierOf(log2)
      /\ Continues(sessions[s], sessions'[s], log, log2)
  BY <1>1, OwnedStays
<1>3. sessions[s].version \in Nat /\ log \in Seq(Event)
  BY QueryFacts, ReadTyped
<1>4. /\ v.at <= sessions'[s].version
      /\ 1 \in IdxAtVersion(log2, v.at)
      /\ FrontierAtVersion(log2, v.at) = FrontierAtVersion(log, v.at)
  <2> HIDE DEF log, log2
  <2> QED
    BY <1>1, <1>2, <1>3, SettledFrontier
<1>5. FrontierAtVersion(log2, v.at) <= FrontierOf(log2)
  BY <1>1, <1>2, <1>4
<1>6. Known(q, v)'
  BY <1>1, <1>2, <1>4, <1>5 DEF Known
<1>7. ContextAt(q, v)' = ContextAt(q, v)
  BY <1>2, <1>4 DEF ContextAt
<1> QED
  BY <1>6, <1>7

\* What a client keeps stays revealed.
LEMMA WalkStays ==
    ASSUME Inv, Inv', [Next]_vars, NEW q \in MarketQuery, Owned(q),
           NEW kept, NEW cursor, Walk(q, kept, cursor)
    PROVE  Walk(q, kept, cursor)'
<1>1. CASE q.channel = "CANDLES"
  BY <1>1 DEF Walk
<1>2. CASE q.channel # "CANDLES"
  <2> DEFINE tape == Source[q.channel]
             log == domain_events[q.session]
             log2 == domain_events'[q.session]
             u == SetupOf(log)
  <2>1. q.channel \in DOMAIN Source
    BY <1>2, QueryFacts
  <2>2. PICK base, k : WalkAt(q, tape, kept, cursor, base, k)
    BY <1>2 DEF Walk
  <2>3. /\ SetupOf(log2) = u /\ FrontierOf(log) <= FrontierOf(log2)
        /\ FrontierOf(log) \in Int /\ FrontierOf(log2) \in Int
    BY OwnedStays
  <2>4. \A j \in 1 .. Len(tape) : tape[j].ts \in Int
    BY <2>1, TapeFacts
  <2>5. Behind(tape, base, k, FrontierOf(log2), u.play_end)
    <3>1. Behind(tape, base, k, FrontierOf(log), u.play_end)
      BY <2>2 DEF WalkAt
    <3> HIDE DEF tape, u, log, log2
    <3> QED
      BY <2>3, <2>4, <3>1 DEF Behind
  <2>6. SeenFrom(q, tape, base, k)' = SeenFrom(q, tape, base, k)
    BY <2>3 DEF SeenFrom, Seen
  <2>7. WalkAt(q, tape, kept, cursor, base, k)'
    BY <2>2, <2>3, <2>5, <2>6 DEF WalkAt
  <2> QED
    BY <1>2, <2>7 DEF Walk
<1> QED
  BY <1>1, <1>2


LEMMA ReaderStays ==
    ASSUME Inv, Inv', [Next]_vars, NEW q \in MarketQuery, NEW reader, ReaderOK(q, reader)
    PROVE  ReaderOK(q, reader)'
<1>1. CASE Fresh(reader)
  <2>1. ReaderShape(reader)
    BY DEF ReaderOK
  <2> QED
    BY <1>1, <2>1 DEF ReaderOK, ReaderShape, Fresh
<1>2. CASE Served(q, reader)
  <2>1. /\ Owned(q) /\ Walk(q, reader.kept, reader.cursor) /\ ReaderShape(reader)
        /\ reader.poll # NoPoll => PollOK(q, reader.poll)
        /\ reader.shown # NoPage => ShownOK(q, reader.shown, reader.cursor)
    BY <1>2 DEF Served, ReaderOK
  <2>2. Owned(q)' /\ Walk(q, reader.kept, reader.cursor)'
    BY <2>1, OwnedStays, WalkStays
  <2>3. ASSUME reader.poll # NoPoll PROVE PollOK(q, reader.poll)'
    <3>1. CASE RowRead(q, reader.poll)
      <4>1. PICK n \in Nat : /\ 1 <= n /\ n <= sessions[q.session].version
                            /\ reader.poll = [stage |-> "events", version |-> n]
        BY <3>1 DEF RowRead
      <4>2. n <= sessions'[q.session].version
        <5>1. Continues(sessions[q.session], sessions'[q.session],
                        domain_events[q.session], domain_events'[q.session])
          BY <2>1, OwnedStays
        <5>2. sessions[q.session].version \in Nat
          BY QueryFacts, ReadTyped
        <5> QED
          BY <4>1, <5>1, <5>2 DEF Continues
      <4> QED
        BY <2>2, <4>1, <4>2 DEF PollOK, RowRead
    <3>2. CASE ~RowRead(q, reader.poll)
      <4>1. PICK v \in Reading, stage \in {"lookup", "read"} :
               Known(q, v) /\ reader.poll = [stage |-> stage, context |-> ContextAt(q, v)]
        BY <2>1, <2>3, <3>2 DEF PollOK, ContextRead
      <4>2. Known(q, v)' /\ ContextAt(q, v)' = ContextAt(q, v)
        BY <4>1, KnownStays
      <4> QED
        BY <4>1, <4>2 DEF PollOK, ContextRead
    <3> QED
      BY <3>1, <3>2
  <2>4. ASSUME reader.shown # NoPage PROVE ShownOK(q, reader.shown, reader.cursor)'
    <3>1. PICK v \in Reading : ShownAs(q, reader.shown, v)
      BY <2>1, <2>4 DEF ShownOK
    <3>2. Known(q, v)' /\ ContextAt(q, v)' = ContextAt(q, v)
      BY <3>1, KnownStays DEF ShownAs
    <3>3. ShownAs(q, reader.shown, v)'
      BY <3>1, <3>2 DEF ShownAs
    <3> QED
      BY <2>1, <2>4, <3>3 DEF ShownOK
  <2>5. ReaderShape(reader)'
    BY <2>1 DEF ReaderShape
  <2>6. Served(q, reader)'
    BY <2>2, <2>3, <2>4 DEF Served
  <2> QED
    BY <2>5, <2>6 DEF ReaderOK
<1> QED
  BY <1>1, <1>2 DEF ReaderOK

LEMMA EntryStays ==
    ASSUME Inv, Inv', [Next]_vars, NEW entry, EntryOK(entry)
    PROVE  EntryOK(entry)'
<1>1. PICK q \in MarketQuery, v \in Reading, after \in Cursor, overshoot \in BOOLEAN :
         /\ Known(q, v)
         /\ q.channel = "CANDLES" => after = NoCursor
         /\ entry = [key |-> CacheKey(q, ContextAt(q, v), after),
                     page |-> PageOf(q, ContextAt(q, v), after, overshoot)]
  BY DEF EntryOK
<1>2. Known(q, v)' /\ ContextAt(q, v)' = ContextAt(q, v)
  BY <1>1, KnownStays
<1> QED
  BY <1>1, <1>2 DEF EntryOK

\* The invariant after a step, from what its new readers and entries were.
LEMMA MarketStays ==
    ASSUME Inv, Inv', [Next]_vars, DOMAIN readers' = Reader,
           \A r \in Reader : ReaderOK(Query[r], readers'[r]),
           \A entry \in cache' : EntryOK(entry), KeysDiffer(cache')
    PROVE  MarketInv'
<1>1. ASSUME NEW r \in Reader PROVE ReaderOK(Query[r], readers[r])'
  <2>1. Query[r] \in MarketQuery
    BY QueryAssumption
  <2>2. \A q \in MarketQuery : \A reader : ReaderOK(q, reader) => ReaderOK(q, reader)'
    BY ReaderStays
  <2> QED
    BY <1>1, <2>1, <2>2
<1>2. ASSUME NEW entry \in cache' PROVE EntryOK(entry)'
  BY <1>2, EntryStays
<1> QED
  BY <1>1, <1>2 DEF MarketInv, KeysDiffer

-----------------------------------------------------------------------------
(***************************************************************************)
(* An answer                                                               *)
(***************************************************************************)

\* The cursor of a client.
LEMMA CursorTyped ==
    ASSUME NEW q \in MarketQuery, NEW kept, NEW cursor, Walk(q, kept, cursor)
    PROVE  cursor \in Cursor /\ (q.channel = "CANDLES" => cursor = NoCursor)
<1>1. CASE q.channel = "CANDLES"
  BY <1>1 DEF Walk, Cursor
<1>2. CASE q.channel # "CANDLES"
  <2> DEFINE tape == Source[q.channel]
  <2>1. q.channel \in DOMAIN Source
    BY <1>2, QueryFacts
  <2>2. PICK base, k : WalkAt(q, tape, kept, cursor, base, k)
    BY <1>2 DEF Walk
  <2>3. base \in Nat /\ k \in Nat /\ base + k <= Len(tape) /\ cursor = CursorAt(tape, base, k)
    BY <2>2 DEF WalkAt, From
  <2>4. Len(tape) \in Nat /\ \A j \in 1 .. Len(tape) : tape[j].sequence \in Nat
    BY <2>1, TapeFacts
  <2>5. k # 0 => base + k \in 1 .. Len(tape)
    BY <2>3, <2>4
  <2> QED
    BY <1>2, <2>3, <2>4, <2>5 DEF CursorAt, Cursor
<1> QED
  BY <1>1, <1>2

\* A page with a cursor takes the walk on, any other leaves it where it is.
LEMMA AnswerWalks ==
    ASSUME Inv, NEW q \in MarketQuery, NEW v \in Reading, Known(q, v),
           NEW kept, NEW cursor, Walk(q, kept, cursor), NEW overshoot \in BOOLEAN,
           NEW page, page = PageOf(q, ContextAt(q, v), cursor, overshoot),
           page.next # NoCursor
    PROVE  Walk(q, kept \o page.items, page.next)
<1> DEFINE context == ContextAt(q, v)
           log == domain_events[q.session]
           u == SetupOf(log)
<1>1. /\ context.start \in Int /\ context.through \in Int
      /\ context.start = u.play_start + q.offset
      /\ u.play_end \in Int /\ FrontierAtVersion(log, v.at) \in Int
      /\ FrontierOf(log) \in Int /\ FrontierAtVersion(log, v.at) <= FrontierOf(log)
  BY ContextFacts, WindowFacts DEF Known
<1>2. cursor \in Cursor
  BY CursorTyped
<1>3. CASE q.channel = "CANDLES"
  <2>1. page = CandlePage(q, context, overshoot)
    BY <1>3 DEF PageOf
  <2>2. page.next = NoCursor
    BY <2>1 DEF CandlePage
  <2> QED
    BY <2>2
<1>4. CASE q.channel # "CANDLES"
  <2> DEFINE tape == Source[q.channel]
  <2>1. q.channel \in DOMAIN Source /\ q.limit \in Nat \ {0}
    BY <1>4, QueryFacts
  <2>2. PICK base, k : WalkAt(q, tape, kept, cursor, base, k)
    BY <1>4 DEF Walk
  <2>3. /\ From(tape, context.start, base)
        /\ k \in Nat /\ base + k <= Len(tape)
        /\ kept = SeenFrom(q, tape, base, k)
        /\ cursor = CursorAt(tape, base, k)
        /\ Behind(tape, base, k, FrontierOf(log), u.play_end)
        /\ base \in Nat
    BY <1>1, <2>2 DEF WalkAt, From
  <2> HIDE DEF context, log, u
  <2>5. PICK lo, n, size : PageSees(q, v, tape, cursor, page, lo, n, size)
    BY <1>2, <1>4, PageSeen
  <2>7. Places(tape, ContextAt(q, v).start, ContextAt(q, v).through, cursor, lo, n)
    BY <2>5 DEF PageSees
  <2>6. lo = base + k
    BY <1>1, <2>1, <2>3, <2>7, WalkOn DEF context
  <2>8. /\ size \in Nat /\ size <= n /\ lo \in Nat /\ n \in Nat /\ lo + n <= Len(tape)
        /\ page.items = SeenFrom(q, tape, lo, size)
        /\ page.next = IF size < q.limit THEN NoCursor ELSE tape[lo + size].sequence
    BY <2>5 DEF PageSees
  <2>9. Len(tape) \in Nat /\ \A j \in 1 .. Len(tape) : tape[j].ts \in Int
    BY <2>1, TapeFacts
  <2> DEFINE m == k + size
  <2>10. /\ size # 0 /\ m \in Nat /\ m # 0 /\ base + m = lo + size
         /\ base + k + size <= Len(tape) /\ base + m <= Len(tape)
    <3>1. size # 0
      BY <2>1, <2>8
    <3>2. /\ base \in Nat /\ k \in Nat /\ size \in Nat /\ size <= n /\ n \in Nat
          /\ base + k + n <= Len(tape) /\ Len(tape) \in Nat
      BY <2>3, <2>6, <2>8, <2>9
    <3> HIDE DEF tape
    <3> QED
      BY <2>6, <3>1, <3>2
  <2>11. kept \o page.items = SeenFrom(q, tape, base, m)
    <3>1. size \in Nat /\ base + k + size <= Len(tape) /\ Owned(q)
      BY <2>8, <2>10 DEF Known
    <3>2. base \in Nat /\ k \in Nat
      BY <2>3
    <3>3. SeenFrom(q, tape, base, k) \o SeenFrom(q, tape, lo, size)
            = SeenFrom(q, tape, base, m)
      <4>1. Adds(base, k, lo) /\ Adds(k, size, m)
        BY <2>6 DEF Adds
      <4>2. tape = Source[q.channel] /\ q.channel \in DOMAIN Source
        BY <2>1
      <4> HIDE DEF m, tape
      <4> QED
        <5>1. Joined(q, tape, base, k, lo, size, m)
          BY <3>1, <3>2, <4>1, <4>2, SeenOn
        <5> QED
          BY <5>1 DEF Joined
    <3> QED
      BY <2>3, <2>8, <3>3
  <2>12. page.next = CursorAt(tape, base, m)
    BY <2>8, <2>10 DEF CursorAt
  <2>13. Behind(tape, base, m, FrontierOf(log), u.play_end)
    <3> SUFFICES ASSUME NEW j \in 1 .. Len(tape), base < j, j <= base + m
                 PROVE  tape[j].ts <= FrontierOf(log) /\ tape[j].ts < u.play_end
      BY DEF Behind
    <3>1. CASE j <= base + k
      BY <2>3, <3>1 DEF Behind
    <3>2. CASE ~(j <= base + k)
      <4>1. lo < j /\ j <= lo + n
        <5>1. /\ base \in Nat /\ k \in Nat /\ size \in Nat /\ size <= n /\ n \in Nat
              /\ Len(tape) \in Nat
          BY <2>3, <2>8, <2>9
        <5> HIDE DEF tape
        <5> QED
          BY <2>6, <3>2, <5>1
      <4>2. tape[j].ts <= FrontierAtVersion(log, v.at) /\ tape[j].ts < u.play_end
        BY <2>1, <2>7, <4>1, SeenBehind DEF log, u
      <4> QED
        BY <1>1, <2>9, <4>2
    <3> QED
      BY <3>1, <3>2
  <2> HIDE DEF m
  <2>14. WalkAt(q, tape, kept \o page.items, page.next, base, m)
    BY <1>1, <2>3, <2>10, <2>11, <2>12, <2>13 DEF WalkAt, log, u
  <2> QED
    BY <1>4, <2>14 DEF Walk
<1> QED
  BY <1>3, <1>4

\* A page leaves a client with what the invariant says of it.
LEMMA AnswerOK ==
    ASSUME Inv, NEW q \in MarketQuery, NEW reader, ReaderOK(q, reader),
           reader.poll # NoPoll, reader.poll.stage # "events", NEW overshoot \in BOOLEAN,
           NEW page, page = PageOf(q, reader.poll.context, reader.cursor, overshoot)
    PROVE  ReaderOK(q, Answered(reader, page))
<1>1. /\ ReaderShape(reader) /\ Owned(q) /\ Walk(q, reader.kept, reader.cursor)
      /\ PollOK(q, reader.poll)
  BY DEF ReaderOK, Fresh, Served
<1>2. PICK v \in Reading, stage \in {"lookup", "read"} :
         Known(q, v) /\ reader.poll = [stage |-> stage, context |-> ContextAt(q, v)]
  BY <1>1, StageTells DEF ContextRead
<1>3. reader.poll.context = ContextAt(q, v) /\ ContextAt(q, v).version = v.row
  BY <1>2 DEF ContextAt
<1> DEFINE next == Answered(reader, page)
           cursor == IF page.next = NoCursor THEN reader.cursor ELSE page.next
           kept == IF page.next = NoCursor THEN reader.kept ELSE reader.kept \o page.items
           shown == [page |-> page, after |-> reader.cursor, version |-> v.row]
<1>4. next = [poll |-> NoPoll, polls |-> reader.polls, cursor |-> cursor, kept |-> kept,
              shown |-> shown]
  <2>1. next = [reader EXCEPT !.poll = NoPoll, !.cursor = cursor, !.kept = kept, !.shown = shown]
    BY <1>3 DEF Answered
  <2> HIDE DEF next, cursor, kept, shown
  <2> QED
    BY <1>1, <2>1 DEF ReaderShape
<1>5. ReaderShape(next)
  BY <1>1, <1>4 DEF ReaderShape
<1>6. page = PageOf(q, ContextAt(q, v), reader.cursor, overshoot)
  BY <1>3
<1>7. Walk(q, kept, cursor)
  <2>1. CASE page.next = NoCursor
    BY <1>1, <2>1
  <2>2. CASE page.next # NoCursor
    BY <1>1, <1>2, <1>6, <2>2, AnswerWalks
  <2> QED
    BY <2>1, <2>2
<1>8. reader.cursor \in Cursor /\ (q.channel = "CANDLES" => reader.cursor = NoCursor)
  BY <1>1, CursorTyped
<1>9. ShownOK(q, shown, cursor)
  <2> HIDE DEF cursor
  <2>1. shown.version = v.row /\ shown.after = reader.cursor /\ shown.page = page
    OBVIOUS
  <2>2. page.next = NoCursor => reader.cursor = cursor
    BY DEF cursor
  <2> HIDE DEF shown
  <2>3. ShownAs(q, shown, v)
    BY <1>2, <1>6, <2>1 DEF ShownAs
  <2> QED
    BY <1>8, <2>1, <2>2, <2>3 DEF ShownOK
<1> HIDE DEF next, cursor, kept, shown
<1>10. Served(q, next)
  BY <1>1, <1>4, <1>7, <1>9 DEF Served
<1> QED
  BY <1>5, <1>10 DEF ReaderOK, next


\* Equal keys are of equal questions with equal contexts.
LEMMA KeyIs ==
    ASSUME Inv, NEW q \in MarketQuery, NEW v, Known(q, v), NEW after,
           NEW q2 \in MarketQuery, NEW v2, Known(q2, v2), NEW after2,
           CacheKey(q, ContextAt(q, v), after) = CacheKey(q2, ContextAt(q2, v2), after2)
    PROVE  q = q2 /\ ContextAt(q, v) = ContextAt(q2, v2) /\ after = after2
<1> DEFINE a == ContextAt(q, v)
           b == ContextAt(q2, v2)
<1>1. /\ q.principal = q2.principal /\ q.session = q2.session
      /\ a.version = b.version /\ a.through = b.through /\ q.channel = q2.channel
      /\ a.start = b.start /\ after = after2
      /\ q.limit = q2.limit /\ q.interval = q2.interval
  <2> HIDE DEF a, b
  <2>1. CacheKey(q, a, after) = CacheKey(q2, b, after2)
    BY DEF a, b
  <2> QED
    BY <2>1 DEF CacheKey
<1>2. /\ a.start = SetupOf(domain_events[q.session]).play_start + q.offset
      /\ b.start = SetupOf(domain_events[q2.session]).play_start + q2.offset
      /\ SetupOf(domain_events[q.session]).play_start \in Int
  BY ContextFacts
<1>3. q.offset \in Nat /\ q2.offset \in Nat
  BY QueryFacts
<1>4. q.offset = q2.offset
  <2> DEFINE x == SetupOf(domain_events[q.session]).play_start
  <2>1. x \in Int /\ x + q.offset = x + q2.offset
    BY <1>1, <1>2
  <2> HIDE DEF x
  <2> QED
    BY <1>3, <2>1
<1>5. q = q2
  BY <1>1, <1>4 DEF MarketQuery
<1>6. a = b
  <2>1. a = [version |-> a.version, through |-> a.through, start |-> a.start,
             origin |-> SetupOf(domain_events[q.session]).play_start]
    BY DEF ContextAt
  <2>2. b = [version |-> b.version, through |-> b.through, start |-> b.start,
             origin |-> SetupOf(domain_events[q.session]).play_start]
    BY <1>1 DEF ContextAt
  <2> HIDE DEF a, b
  <2> QED
    BY <1>1, <2>1, <2>2
<1> QED
  BY <1>1, <1>5, <1>6

-----------------------------------------------------------------------------
(***************************************************************************)
(* The steps                                                               *)
(***************************************************************************)

LEMMA MarketStart == MarketInit => MarketInv
<1> SUFFICES ASSUME MarketInit PROVE MarketInv
  OBVIOUS
<1>1. Inv
  BY PinnedInv DEF MarketInit
<1>2. /\ cache = {} /\ DOMAIN readers = Reader
      /\ \A r \in Reader : readers[r] = NewReader
  BY DEF MarketInit
<1>3. \A q : ReaderOK(q, NewReader)
  BY DEF ReaderOK, ReaderShape, Fresh, NewReader
<1> QED
  BY <1>1, <1>2, <1>3 DEF MarketInv, KeysDiffer

\* A session that can be read is pinned, and pinned at a version of its own.
LEMMA RowNow ==
    ASSUME Inv, NEW q \in MarketQuery, Readable(q), NEW n, n = sessions[q.session].version
    PROVE  Owned(q) /\ n \in Nat /\ 1 <= n /\ n <= n
<1> DEFINE s == q.session
           log == domain_events[s]
<1>1. s \in SessionId
  BY QueryFacts
<1>2. Owned(q)
  <2>1. PinIdx(log) # {} /\ sessions[s].principal = q.principal
    BY DEF Readable
  <2>2. log # <<>>
    BY <2>1 DEF PinIdx
  <2> QED
    BY <1>1, <2>1, <2>2, ReadTyped DEF Owned
<1>3. n \in Nat /\ n <= n
  BY <1>1, ReadTyped
<1>4. 1 \in IdxAtVersion(log, n)
  BY <1>1, <1>2, FrontierNow DEF Owned
<1>5. 1 <= n
  <2>1. 1 \in DOMAIN log /\ CausesOK(n, log)
    BY <1>1, <1>2, <1>4 DEF Owned, Inv, SessionOK, IdxAtVersion, FrontierIdx
  <2>2. log[1] \in Event
    BY <1>1, <2>1, ReadTyped
  <2>3. log[1].cause \in Nat
    BY <2>2 DEF Event
  <2> QED
    BY <1>3, <2>1, <2>3 DEF CausesOK
<1> QED
  BY <1>2, <1>3, <1>5

\* The events are those of the version the session has now, which may be later
\* than that of the row read before.
LEMMA ContextNow ==
    ASSUME Inv, NEW q \in MarketQuery, Owned(q), NEW n \in Nat,
           1 <= n, n <= sessions[q.session].version,
           NEW v, v = [row |-> n, at |-> sessions[q.session].version]
    PROVE  v \in Reading /\ Known(q, v) /\ Context(q, n) = ContextAt(q, v)
<1> DEFINE s == q.session
           log == domain_events[s]
<1>1. s \in SessionId
  BY QueryFacts
<1>2. v.row = n /\ v.at = sessions[s].version /\ sessions[s].version \in Nat
  BY <1>1, ReadTyped
<1>3. v \in Reading
  BY <1>2 DEF Reading
<1>4. /\ 1 \in IdxAtVersion(log, v.at) /\ FrontierAtVersion(log, v.at) = FrontierOf(log)
  BY <1>1, <1>2, FrontierNow DEF Owned
<1>5. FrontierOf(log) \in Int
  BY WindowFacts
<1>6. FrontierAtVersion(log, v.at) <= FrontierOf(log) /\ v.at <= sessions[s].version
  BY <1>2, <1>4, <1>5
<1>7. Known(q, v)
  BY <1>2, <1>3, <1>4, <1>5, <1>6 DEF Known
<1>8. Context(q, n) = ContextAt(q, v)
  BY <1>2, <1>4 DEF Context, ContextAt, VisibleThrough
<1> QED
  BY <1>3, <1>7, <1>8

LEMMA RequestOK ==
    ASSUME MarketInv, NEW r \in Reader, Request(r)
    PROVE  /\ DOMAIN readers' = Reader /\ cache' = cache
           /\ \A x \in Reader : ReaderOK(Query[x], readers'[x])
<1> DEFINE q == Query[r]
           reader == readers[r]
           v == sessions[q.session].version
           poll == [stage |-> "events", version |-> v]
           next == [poll |-> poll, polls |-> reader.polls + 1, cursor |-> reader.cursor,
                    kept |-> reader.kept, shown |-> reader.shown]
<1>1. q \in MarketQuery /\ Inv /\ ReaderOK(q, reader)
  BY QueryAssumption DEF MarketInv
<1>2. Readable(q)
  BY DEF Request
<1>3. Owned(q) /\ v \in Nat /\ 1 <= v /\ v <= v
  BY <1>1, <1>2, RowNow
<1>4. PollOK(q, poll)
  BY <1>3 DEF PollOK, RowRead
<1>5. ReaderShape(reader) /\ DOMAIN readers = Reader
  BY <1>1 DEF ReaderOK, MarketInv
<1>6. readers' = [readers EXCEPT ![r] = next]
  BY <1>5 DEF Request, ReaderShape
<1>7. Owned(q)
  BY <1>3
<1>8. Walk(q, reader.kept, reader.cursor)
  <2>1. CASE Fresh(reader)
    <3>1. reader.kept = <<>> /\ reader.cursor = NoCursor
      BY <2>1 DEF Fresh
    <3>2. CASE q.channel = "CANDLES"
      BY <3>1, <3>2 DEF Walk
    <3>3. CASE q.channel # "CANDLES"
      <4> DEFINE tape == Source[q.channel]
                 u == SetupOf(domain_events[q.session])
      <4>1. q.channel \in DOMAIN Source /\ u.play_start + q.offset \in Int
        BY <1>1, <1>7, <3>3, QueryFacts, WindowFacts
      <4>2. PICK base : From(tape, u.play_start + q.offset, base)
        BY <4>1, FromExists
      <4>3. base \in Nat /\ base + 0 <= Len(tape) /\ base + 0 = base /\ 0 \in Nat
        BY <4>2 DEF From
      <4>4. SeenFrom(q, tape, base, 0) = <<>>
        <5>1. Len(SeenFrom(q, tape, base, 0)) = 0 /\ SeenFrom(q, tape, base, 0) \in Seq(Item)
          BY <1>1, <1>7, <4>1, <4>3, SeenFromFacts
        <5> QED
          BY <5>1, EmptySeq
      <4>5. Behind(tape, base, 0, FrontierOf(domain_events[q.session]), u.play_end)
        <5> HIDE DEF tape
        <5> QED
          BY <4>3 DEF Behind
      <4>6. WalkAt(q, tape, reader.kept, reader.cursor, base, 0)
        BY <3>1, <4>2, <4>3, <4>4, <4>5 DEF WalkAt, CursorAt
      <4> QED
        BY <3>3, <4>6 DEF Walk
    <3> QED
      BY <3>2, <3>3
  <2>2. CASE Served(q, reader)
    BY <2>2 DEF Served
  <2> QED
    BY <1>1, <2>1, <2>2 DEF ReaderOK
<1>9. reader.shown # NoPage => ShownOK(q, reader.shown, reader.cursor)
  BY <1>1 DEF ReaderOK, Fresh, Served
<1>10. ReaderOK(q, next)
  <2>1. ReaderShape(next)
    BY <1>5 DEF ReaderShape
  <2>2. /\ next.poll = poll /\ next.kept = reader.kept /\ next.cursor = reader.cursor
        /\ next.shown = reader.shown
    OBVIOUS
  <2> HIDE DEF next, poll
  <2>3. Served(q, next)
    BY <1>4, <1>7, <1>8, <1>9, <2>2 DEF Served
  <2> QED
    BY <2>1, <2>3 DEF ReaderOK
<1> HIDE DEF next
<1>11. ASSUME NEW x \in Reader PROVE ReaderOK(Query[x], readers'[x])
  <2>1. CASE x = r
    BY <1>5, <1>6, <1>10, <2>1
  <2>2. CASE x # r
    BY <1>5, <1>6, <2>2 DEF MarketInv
  <2> QED
    BY <2>1, <2>2
<1> QED
  BY <1>5, <1>6, <1>11 DEF Request

LEMMA ReadEventsOK ==
    ASSUME MarketInv, NEW r \in Reader, ReadEvents(r)
    PROVE  /\ DOMAIN readers' = Reader /\ cache' = cache
           /\ \A x \in Reader : ReaderOK(Query[x], readers'[x])
<1> DEFINE q == Query[r]
           reader == readers[r]
           poll == [stage |-> "lookup", context |-> Context(q, reader.poll.version)]
           next == [poll |-> poll, polls |-> reader.polls, cursor |-> reader.cursor,
                    kept |-> reader.kept, shown |-> reader.shown]
<1>1. q \in MarketQuery /\ Inv /\ ReaderOK(q, reader) /\ DOMAIN readers = Reader
  BY QueryAssumption DEF MarketInv
<1>2. reader.poll # NoPoll /\ reader.poll.stage = "events" /\ cache' = cache
  BY DEF ReadEvents
<1>3. ReaderShape(reader) /\ Served(q, reader) /\ PollOK(q, reader.poll)
  BY <1>1, <1>2 DEF ReaderOK, Fresh, Served
<1>4. PICK n \in Nat : /\ Owned(q) /\ 1 <= n /\ n <= sessions[q.session].version
                      /\ reader.poll = [stage |-> "events", version |-> n]
  BY <1>2, <1>3, StageTells DEF RowRead
<1>5. PollOK(q, poll)
  <2> DEFINE v == [row |-> n, at |-> sessions[q.session].version]
  <2>1. v \in Reading /\ Known(q, v) /\ Context(q, n) = ContextAt(q, v)
    BY <1>1, <1>4, ContextNow
  <2>2. poll = [stage |-> "lookup", context |-> ContextAt(q, v)]
    BY <1>4, <2>1
  <2> HIDE DEF v, poll
  <2> QED
    BY <2>1, <2>2 DEF PollOK, ContextRead
<1>6. readers' = [readers EXCEPT ![r] = next]
  <2>1. readers' = [readers EXCEPT ![r] = [reader EXCEPT !.poll = poll]]
    BY DEF ReadEvents
  <2> HIDE DEF poll
  <2>2. [reader EXCEPT !.poll = poll] = next
    BY <1>3 DEF ReaderShape
  <2> QED
    BY <2>1, <2>2
<1>7. ReaderOK(q, next)
  <2>1. ReaderShape(next)
    BY <1>3 DEF ReaderShape
  <2>2. /\ next.poll = poll /\ next.kept = reader.kept /\ next.cursor = reader.cursor
        /\ next.shown = reader.shown
    OBVIOUS
  <2> HIDE DEF next, poll
  <2> QED
    BY <1>3, <1>5, <2>1, <2>2 DEF Served, ReaderOK
<1> HIDE DEF next
<1>8. ASSUME NEW x \in Reader PROVE ReaderOK(Query[x], readers'[x])
  <2>1. CASE x = r
    BY <1>1, <1>6, <1>7, <2>1
  <2>2. CASE x # r
    BY <1>1, <1>6, <2>2 DEF MarketInv
  <2> QED
    BY <2>1, <2>2
<1> QED
  BY <1>1, <1>2, <1>6, <1>8

\* An answer with the page the question has leaves the invariant alone.
LEMMA AnsweredOK ==
    ASSUME MarketInv, NEW r \in Reader, readers[r].poll # NoPoll, readers[r].poll.stage # "events",
           NEW overshoot \in BOOLEAN, NEW page, Answer(r, page),
           page = PageOf(Query[r], readers[r].poll.context, readers[r].cursor, overshoot)
    PROVE  /\ DOMAIN readers' = Reader
           /\ \A x \in Reader : ReaderOK(Query[x], readers'[x])
<1> DEFINE q == Query[r]
           reader == readers[r]
<1>1. q \in MarketQuery /\ Inv /\ ReaderOK(q, reader) /\ DOMAIN readers = Reader
  BY QueryAssumption DEF MarketInv
<1>2. ReaderOK(q, Answered(reader, page))
  BY <1>1, AnswerOK
<1>3. readers' = [readers EXCEPT ![r] = Answered(reader, page)]
  BY DEF Answer
<1>4. ASSUME NEW x \in Reader PROVE ReaderOK(Query[x], readers'[x])
  <2>1. CASE x = r
    BY <1>1, <1>2, <1>3, <2>1
  <2>2. CASE x # r
    BY <1>1, <1>3, <2>2 DEF MarketInv
  <2> QED
    BY <2>1, <2>2
<1> QED
  BY <1>1, <1>3, <1>4

\* The question of a request that has read its session.
LEMMA AskedIs ==
    ASSUME MarketInv, NEW r \in Reader, readers[r].poll # NoPoll, readers[r].poll.stage # "events",
           NEW q, q = Query[r]
    PROVE  /\ q \in MarketQuery /\ ReaderOK(q, readers[r]) /\ ReaderShape(readers[r])
           /\ readers[r].cursor \in Cursor
           /\ q.channel = "CANDLES" => readers[r].cursor = NoCursor
           /\ \E v \in Reading, stage \in {"lookup", "read"} :
                 /\ Known(q, v)
                 /\ readers[r].poll = [stage |-> stage, context |-> ContextAt(q, v)]
<1>1. q \in MarketQuery /\ ReaderOK(q, readers[r])
  BY QueryAssumption DEF MarketInv
<1>2. /\ ReaderShape(readers[r]) /\ PollOK(q, readers[r].poll)
      /\ Walk(q, readers[r].kept, readers[r].cursor)
  BY <1>1 DEF ReaderOK, Fresh, Served
<1>3. readers[r].cursor \in Cursor /\ (q.channel = "CANDLES" => readers[r].cursor = NoCursor)
  BY <1>1, <1>2, CursorTyped
<1> QED
  BY <1>1, <1>2, <1>3, StageTells DEF ContextRead

LEMMA LookupOK ==
    ASSUME MarketInv, NEW r \in Reader, Lookup(r)
    PROVE  /\ DOMAIN readers' = Reader /\ cache' = cache
           /\ \A x \in Reader : ReaderOK(Query[x], readers'[x])
<1> DEFINE q == Query[r]
           reader == readers[r]
<1>1. reader.poll # NoPoll /\ reader.poll.stage # "events" /\ cache' = cache
  BY DEF Lookup
<1>2. /\ q \in MarketQuery /\ ReaderOK(q, reader) /\ ReaderShape(reader)
      /\ \E v \in Reading, stage \in {"lookup", "read"} :
            Known(q, v) /\ reader.poll = [stage |-> stage, context |-> ContextAt(q, v)]
  BY <1>1, AskedIs
<1>3. PICK v \in Reading, stage \in {"lookup", "read"} :
         Known(q, v) /\ reader.poll = [stage |-> stage, context |-> ContextAt(q, v)]
  BY <1>2
<1>4. DOMAIN readers = Reader /\ Inv
  BY DEF MarketInv
<1>5. CASE Cached(Key(r)) = {}
  <2> DEFINE poll == [stage |-> "read", context |-> ContextAt(q, v)]
             next == [poll |-> poll, polls |-> reader.polls, cursor |-> reader.cursor,
                      kept |-> reader.kept, shown |-> reader.shown]
  <2>1. readers' = [readers EXCEPT ![r].poll.stage = "read"]
    BY <1>5 DEF Lookup
  <2>2. readers' = [readers EXCEPT ![r] = next]
    <3>1. reader.poll = [stage |-> stage, context |-> ContextAt(q, v)]
      BY <1>3
    <3>2. [reader.poll EXCEPT !.stage = "read"] = poll
      BY <3>1
    <3>3. readers' = [readers EXCEPT ![r] = [reader EXCEPT !.poll = poll]]
      BY <2>1, <3>2
    <3> HIDE DEF poll
    <3>4. [reader EXCEPT !.poll = poll] = next
      BY <1>2 DEF ReaderShape
    <3> QED
      BY <3>3, <3>4
  <2>3. ReaderShape(next)
    BY <1>2 DEF ReaderShape
  <2>4. PollOK(q, poll)
    BY <1>3 DEF PollOK, ContextRead
  <2>5. Served(q, reader)
    BY <1>1, <1>2 DEF ReaderOK, Fresh
  <2>6. /\ next.poll = poll /\ next.kept = reader.kept /\ next.cursor = reader.cursor
        /\ next.shown = reader.shown
    OBVIOUS
  <2> HIDE DEF next, poll
  <2>7. ReaderOK(q, next)
    BY <2>3, <2>4, <2>5, <2>6 DEF Served, ReaderOK
  <2>8. ASSUME NEW x \in Reader PROVE ReaderOK(Query[x], readers'[x])
    <3>1. CASE x = r
      BY <1>4, <2>2, <2>7, <3>1
    <3>2. CASE x # r
      BY <1>4, <2>2, <3>2 DEF MarketInv
    <3> QED
      BY <3>1, <3>2
  <2> QED
    BY <1>1, <1>4, <2>2, <2>8
<1>6. CASE Cached(Key(r)) # {}
  <2>1. PICK entry \in Cached(Key(r)) : Answer(r, entry.page)
    BY <1>6 DEF Lookup
  <2>2. entry \in cache /\ entry.key = CacheKey(q, ContextAt(q, v), reader.cursor)
    BY <1>3, <2>1 DEF Cached, Key
  <2>3. PICK q2 \in MarketQuery, v2 \in Reading, after \in Cursor, overshoot \in BOOLEAN :
           /\ Known(q2, v2)
           /\ entry = [key |-> CacheKey(q2, ContextAt(q2, v2), after),
                       page |-> PageOf(q2, ContextAt(q2, v2), after, overshoot)]
    BY <2>2 DEF MarketInv, EntryOK
  <2>4. CacheKey(q, ContextAt(q, v), reader.cursor) = CacheKey(q2, ContextAt(q2, v2), after)
    BY <2>2, <2>3
  <2>5. q = q2 /\ ContextAt(q, v) = ContextAt(q2, v2) /\ reader.cursor = after
    BY <1>2, <1>3, <1>4, <2>3, <2>4, KeyIs
  <2>6. entry.page = PageOf(q, reader.poll.context, reader.cursor, overshoot)
    BY <1>3, <2>3, <2>5
  <2> QED
    BY <1>1, <2>1, <2>6, AnsweredOK
<1> QED
  BY <1>5, <1>6

LEMMA ReadOK ==
    ASSUME MarketInv, NEW r \in Reader, NEW overshoot \in BOOLEAN, Read(r, overshoot)
    PROVE  /\ DOMAIN readers' = Reader
           /\ \A x \in Reader : ReaderOK(Query[x], readers'[x])
           /\ \A entry \in cache' : EntryOK(entry)
           /\ KeysDiffer(cache')
<1> DEFINE q == Query[r]
           reader == readers[r]
           page == PageOf(q, reader.poll.context, reader.cursor, overshoot)
           fresh == [key |-> Key(r), page |-> page]
<1>1. reader.poll # NoPoll /\ reader.poll.stage # "events" /\ Answer(r, page)
      /\ cache' = (cache \ Cached(Key(r))) \cup {fresh}
  BY DEF Read
<1>2. /\ q \in MarketQuery /\ reader.cursor \in Cursor
      /\ q.channel = "CANDLES" => reader.cursor = NoCursor
      /\ \E v \in Reading, stage \in {"lookup", "read"} :
            Known(q, v) /\ reader.poll = [stage |-> stage, context |-> ContextAt(q, v)]
  BY <1>1, AskedIs
<1>3. PICK v \in Reading, stage \in {"lookup", "read"} :
         Known(q, v) /\ reader.poll = [stage |-> stage, context |-> ContextAt(q, v)]
  BY <1>2
<1>4. DOMAIN readers' = Reader /\ \A x \in Reader : ReaderOK(Query[x], readers'[x])
  BY <1>1, AnsweredOK
<1>5. /\ Key(r) = CacheKey(q, ContextAt(q, v), reader.cursor)
      /\ page = PageOf(q, ContextAt(q, v), reader.cursor, overshoot)
  BY <1>3 DEF Key
<1>6. EntryOK(fresh)
  <2> HIDE DEF q, reader, page
  <2> QED
    BY <1>2, <1>3, <1>5 DEF EntryOK
<1>7. fresh.key = Key(r)
  OBVIOUS
<1> HIDE DEF fresh, page
<1>8. KeysDiffer(cache')
  BY <1>1, <1>7 DEF KeysDiffer, Cached, MarketInv
<1>9. \A entry \in cache' : EntryOK(entry)
  BY <1>1, <1>6 DEF MarketInv
<1> QED
  BY <1>4, <1>8, <1>9

LEMMA MarketStep == MarketInv /\ [MarketNext]_<<vars, marketVars>> => MarketInv'
<1> SUFFICES ASSUME MarketInv, [MarketNext]_<<vars, marketVars>> PROVE MarketInv'
  OBVIOUS
<1>1. Inv /\ DOMAIN readers = Reader /\ KeysDiffer(cache)
      /\ (\A r \in Reader : ReaderOK(Query[r], readers[r]))
      /\ (\A entry \in cache : EntryOK(entry))
  BY DEF MarketInv
<1>2. ASSUME UNCHANGED vars PROVE [Next]_vars /\ Inv'
  <2>1. [Next]_vars
    BY <1>2
  <2> QED
    BY <1>1, <2>1, NextInv
<1>3. ASSUME NEW s \in SessionId, NEW p \in Principal, OwnerStep(s, p), UNCHANGED marketVars
      PROVE  MarketInv'
  <2>1. [Next]_vars /\ Inv'
    <3>1. Next
      BY <1>3 DEF Next, LifecycleStep
    <3> QED
      BY <1>1, <1>3, <3>1, OwnerInv
  <2>2. cache' = cache /\ readers' = readers
    BY <1>3 DEF marketVars
  <2> QED
    BY <1>1, <2>1, <2>2, MarketStays
<1>4. ASSUME NEW r \in Reader, Request(r) PROVE MarketInv'
  <2>1. UNCHANGED vars
    BY <1>4 DEF Request
  <2> QED
    BY <1>1, <1>2, <1>4, <2>1, RequestOK, MarketStays
<1>8. ASSUME NEW r \in Reader, ReadEvents(r) PROVE MarketInv'
  <2>1. UNCHANGED vars
    BY <1>8 DEF ReadEvents
  <2> QED
    BY <1>1, <1>2, <1>8, <2>1, ReadEventsOK, MarketStays
<1>5. ASSUME NEW r \in Reader, Lookup(r) PROVE MarketInv'
  <2>1. UNCHANGED vars
    BY <1>5 DEF Lookup
  <2> QED
    BY <1>1, <1>2, <1>5, <2>1, LookupOK, MarketStays
<1>6. ASSUME NEW r \in Reader, NEW overshoot \in BOOLEAN, Read(r, overshoot) PROVE MarketInv'
  <2>1. UNCHANGED vars
    BY <1>6 DEF Read
  <2> QED
    BY <1>1, <1>2, <1>6, <2>1, ReadOK, MarketStays
<1>7. CASE UNCHANGED <<vars, marketVars>>
  <2>1. UNCHANGED vars /\ cache' = cache /\ readers' = readers
    BY <1>7 DEF marketVars
  <2> QED
    BY <1>1, <1>2, <2>1, MarketStays
<1> QED
  BY <1>3, <1>4, <1>5, <1>6, <1>7, <1>8 DEF MarketNext


LEMMA MarketInvariance == MarketSpec => []MarketInv
  BY MarketStart, MarketStep, PTL DEF MarketSpec

-----------------------------------------------------------------------------
(***************************************************************************)
(* What clients are shown                                                  *)
(***************************************************************************)

LEMMA ReaderServed ==
    ASSUME MarketInv, NEW r \in Reader, NEW q, q = Query[r]
    PROVE  /\ q \in MarketQuery
           /\ ReaderShape(readers[r])
           /\ Fresh(readers[r]) \/ Served(q, readers[r])
           /\ readers[r].poll # NoPoll => Served(q, readers[r])
           /\ readers[r].shown # NoPage => Served(q, readers[r])
  BY QueryAssumption DEF MarketInv, ReaderOK, Fresh

LEMMA MarketTyped == MarketInv => MarketTypeOK
<1> SUFFICES ASSUME MarketInv PROVE MarketTypeOK
  OBVIOUS
<1>1. TypeOK /\ \A e, f \in cache : e.key = f.key => e = f
  BY DEF MarketInv, Inv, KeysDiffer
<1>2. ASSUME NEW r \in Reader PROVE readers[r].polls \in Nat
  BY ReaderServed DEF ReaderShape
<1>3. ASSUME NEW r \in Reader, readers[r].poll # NoPoll
      PROVE  /\ readers[r].poll.stage \in {"events", "lookup", "read"}
             /\ (IF readers[r].poll.stage = "events" THEN readers[r].poll
                                                     ELSE readers[r].poll.context).version
                   \in 1..sessions[Query[r].session].version
  <2> DEFINE q == Query[r]
             poll == readers[r].poll
  <2>1. q \in MarketQuery /\ PollOK(q, poll) /\ Inv
    BY <1>3, ReaderServed DEF Served, MarketInv
  <2>2. sessions[q.session].version \in Nat
    BY <2>1, QueryFacts, ReadTyped
  <2>3. CASE RowRead(q, poll)
    <3>1. PICK n \in Nat : /\ 1 <= n /\ n <= sessions[q.session].version
                          /\ poll = [stage |-> "events", version |-> n]
      BY <2>3 DEF RowRead
    <3>2. poll.stage = "events" /\ poll.version = n
      BY <3>1
    <3>3. n \in 1..sessions[q.session].version
      BY <2>2, <3>1
    <3> QED
      BY <3>2, <3>3
  <2>4. CASE ~RowRead(q, poll)
    <3>1. PICK v \in Reading, stage \in {"lookup", "read"} :
             Known(q, v) /\ poll = [stage |-> stage, context |-> ContextAt(q, v)]
      BY <2>1, <2>4 DEF PollOK, ContextRead
    <3>2. ContextAt(q, v).version = v.row
      BY DEF ContextAt
    <3>3. v.row \in 1..sessions[q.session].version
      BY <2>2, <3>1 DEF Known, Reading
    <3>4. poll.stage = stage /\ poll.context.version = v.row
      BY <3>1, <3>2
    <3> QED
      BY <3>3, <3>4
  <2> QED
    BY <2>3, <2>4
<1> QED
  BY <1>1, <1>2, <1>3 DEF MarketTypeOK

LEMMA MarketExact == MarketInv => PagesExact
<1> SUFFICES ASSUME MarketInv, NEW r \in Reader, readers[r].shown # NoPage
             PROVE  \E n \in readers[r].shown.version .. sessions[Query[r].session].version :
                        ExactAt(Query[r], n, readers[r].shown.after, readers[r].shown.page)
  BY DEF PagesExact
<1> DEFINE q == Query[r]
           shown == readers[r].shown
<1>1. q \in MarketQuery /\ ShownOK(q, shown, readers[r].cursor) /\ Inv
  BY ReaderServed DEF Served, MarketInv
<1>2. PICK v \in Reading : ShownAs(q, shown, v)
  BY <1>1 DEF ShownOK
<1>3. PICK overshoot \in BOOLEAN :
         shown.page = PageOf(q, ContextAt(q, v), shown.after, overshoot)
  BY <1>2 DEF ShownAs
<1>4. /\ Known(q, v) /\ shown.version = v.row /\ shown.after \in Cursor
      /\ q.channel = "CANDLES" => shown.after = NoCursor
  BY <1>1, <1>2 DEF ShownOK, ShownAs
<1>5. ExactAt(q, v.at, shown.after, shown.page)
  BY <1>1, <1>3, <1>4, PageIsExact
<1>6. v.at \in shown.version .. sessions[q.session].version
  <2>1. v.row \in Nat /\ v.at \in Nat /\ v.row <= v.at /\ v.at <= sessions[q.session].version
    BY <1>4 DEF Known, Reading
  <2>2. sessions[q.session].version \in Nat
    BY <1>1, QueryFacts, ReadTyped
  <2> QED
    BY <1>4, <2>1, <2>2
<1> QED
  BY <1>5, <1>6

\* A walk beside what the tape holds from the offset on.
AllFrom(q, tape, u) == SelectIn(tape, {e \in ToSet(tape) : u.play_start + q.offset <= e.ts})
ShowsAll(walked, all, u) ==
    /\ Len(walked) <= Len(all)
    /\ \A i \in DOMAIN walked :
          walked[i] = [offset |-> all[i].ts - u.play_start,
                       price |-> all[i].price, quantity |-> all[i].quantity]
WalkedBy(reader) ==
    reader.kept \o (IF reader.shown = NoPage \/ reader.shown.page.next # NoCursor
                    THEN <<>> ELSE reader.shown.page.items)
WalkShown(q, reader) ==
    LET u == SetupOf(domain_events[q.session])
    IN  q.channel # "CANDLES" =>
            ShowsAll(WalkedBy(reader), AllFrom(q, Source[q.channel], u), u)

\* A walk is what the tape shows from the offset on.
LEMMA WalkIs ==
    ASSUME Inv, NEW q \in MarketQuery, Owned(q), q.channel # "CANDLES",
           NEW tape, tape = Source[q.channel],
           NEW u, u = SetupOf(domain_events[q.session]),
           NEW base, From(tape, u.play_start + q.offset, base),
           NEW k \in Nat, base + k <= Len(tape)
    PROVE  ShowsAll(SeenFrom(q, tape, base, k), AllFrom(q, tape, u), u)
<1> DEFINE start == u.play_start + q.offset
           T == {e \in ToSet(tape) : start <= e.ts}
           n == Len(tape) - base
           all == AllFrom(q, tape, u)
           walked == SeenFrom(q, tape, base, k)
<1>1. q.channel \in DOMAIN Source
  BY QueryFacts
<1>2. /\ tape \in Seq(MarketEvent) /\ Len(tape) \in Nat
      /\ \A j \in 1 .. Len(tape) : tape[j] \in ToSet(tape)
  BY <1>1, TapeFacts
<1>3. base \in Nat /\ base <= Len(tape) /\ \A j \in 1 .. Len(tape) : start <= tape[j].ts <=> base < j
  BY DEF From
<1>4. n \in Nat /\ base + n = Len(tape) /\ base + n <= Len(tape) /\ k <= n
  BY <1>2, <1>3
<1>5. \A j \in 1 .. Len(tape) : tape[j] \in T <=> base < j /\ j <= base + n
  <2> HIDE DEF start
  <2> QED
    BY <1>2, <1>3, <1>4
<1>6. all = SelectIn(tape, T)
  BY DEF AllFrom
<1>7. all = Slice(tape, base, n)
  <2> HIDE DEF T, n, all
  <2> QED
    BY <1>2, <1>3, <1>4, <1>5, <1>6, SelectSlice
<1>8. Len(all) = n
  <2> HIDE DEF n, all
  <2>1. Len(Slice(tape, base, n)) = n
    BY <1>2, <1>3, <1>4, SliceTyped
  <2> QED
    BY <1>7, <2>1
<1>9. Len(walked) = k /\ DOMAIN walked = 1 .. k
  BY <1>1, <1>3, SeenFromFacts
<1>10. ASSUME NEW i \in 1 .. k
       PROVE  walked[i] = [offset |-> all[i].ts - u.play_start,
                           price |-> all[i].price, quantity |-> all[i].quantity]
  <2>1. walked[i] = Seen(q, tape[base + i])
    BY DEF SeenFrom
  <2>2. i \in 1 .. n
    BY <1>4
  <2>3. all[i] = tape[base + i]
    <3> HIDE DEF all, n
    <3> QED
      BY <1>7, <2>2 DEF Slice
  <2> HIDE DEF all, walked
  <2> QED
    BY <2>1, <2>3 DEF Seen
<1> HIDE DEF all, walked, n
<1>11. ShowsAll(walked, all, u)
  BY <1>4, <1>8, <1>9, <1>10 DEF ShowsAll
<1> QED
  BY <1>11 DEF walked, all

LEMMA NothingWalked ==
    ASSUME NEW all \in Seq(MarketEvent), NEW u
    PROVE  ShowsAll(<<>>, all, u)
<1>1. Len(all) \in Nat
  BY LenProperties
<1>2. Len(<<>>) = 0 /\ DOMAIN <<>> = {}
  OBVIOUS
<1> QED
  BY <1>1, <1>2 DEF ShowsAll

LEMMA WalkOK ==
    ASSUME Inv, NEW q \in MarketQuery, NEW reader,
           Fresh(reader) \/ Served(q, reader)
    PROVE  WalkShown(q, reader)
<1> DEFINE u == SetupOf(domain_events[q.session])
           tape == Source[q.channel]
           shown == reader.shown
           walked == WalkedBy(reader)
<1> SUFFICES ASSUME q.channel # "CANDLES"
             PROVE  ShowsAll(walked, AllFrom(q, tape, u), u)
  BY DEF WalkShown
<1>1. q.channel \in DOMAIN Source
  BY QueryFacts
<1>2. tape \in Seq(MarketEvent)
  BY <1>1, TapeFacts
<1>3. CASE Fresh(reader)
  <2>1. walked = <<>>
    <3>1. reader.kept = <<>> /\ shown = NoPage
      BY <1>3 DEF Fresh
    <3> QED
      BY <3>1 DEF WalkedBy
  <2> HIDE DEF u, tape, walked
  <2>2. AllFrom(q, tape, u) \in Seq(MarketEvent)
    BY <1>2, SelectInRange DEF AllFrom
  <2> QED
    BY <2>1, <2>2, NothingWalked
<1>4. CASE Served(q, reader)
  <2>1. Owned(q) /\ Walk(q, reader.kept, reader.cursor)
    BY <1>4 DEF Served
  <2>2. PICK base, k : WalkAt(q, tape, reader.kept, reader.cursor, base, k)
    BY <2>1 DEF Walk
  <2>3. /\ From(tape, u.play_start + q.offset, base) /\ base \in Nat
        /\ k \in Nat /\ base + k <= Len(tape)
        /\ reader.kept = SeenFrom(q, tape, base, k)
        /\ reader.cursor = CursorAt(tape, base, k)
    BY <2>2 DEF WalkAt, From
  <2>4. ASSUME NEW m \in Nat, base + m <= Len(tape), walked = SeenFrom(q, tape, base, m)
        PROVE  ShowsAll(walked, AllFrom(q, tape, u), u)
    <3>1. ShowsAll(SeenFrom(q, tape, base, m), AllFrom(q, tape, u), u)
      BY <2>1, <2>3, <2>4, WalkIs
    <3> HIDE DEF tape, u, walked
    <3> QED
      BY <2>4, <3>1
  <2>5. CASE shown = NoPage \/ shown.page.next # NoCursor
    <3>1. reader.kept \in Seq(Item)
      BY <1>1, <2>1, <2>3, SeenFromFacts
    <3>2. walked = reader.kept
      BY <2>5, <3>1, ConcatEmptySeq DEF WalkedBy
    <3>3. walked = SeenFrom(q, tape, base, k)
      BY <2>3, <3>2
    <3> QED
      BY <2>3, <2>4, <3>3
  <2>6. CASE shown # NoPage /\ shown.page.next = NoCursor
    <3>0. PICK v \in Reading : ShownAs(q, shown, v)
      BY <1>4, <2>6 DEF Served, ShownOK
    <3>1. /\ Known(q, v) /\ shown.after = reader.cursor /\ shown.after \in Cursor
          /\ \E overshoot \in BOOLEAN :
                shown.page = PageOf(q, ContextAt(q, v), shown.after, overshoot)
      BY <1>4, <2>6, <3>0 DEF Served, ShownOK, ShownAs
    <3>2. PICK overshoot \in BOOLEAN :
             shown.page = PageOf(q, ContextAt(q, v), shown.after, overshoot)
      BY <3>1
    <3>3. PICK lo, n, size : PageSees(q, v, tape, shown.after, shown.page, lo, n, size)
      BY <1>1, <3>1, <3>2, PageSeen
    <3>4. Places(tape, ContextAt(q, v).start, ContextAt(q, v).through, reader.cursor, lo, n)
      BY <3>1, <3>3 DEF PageSees
    <3>5. /\ size \in Nat /\ size <= n /\ lo \in Nat /\ n \in Nat /\ lo + n <= Len(tape)
          /\ shown.page.items = SeenFrom(q, tape, lo, size)
      BY <3>3 DEF PageSees
    <3>6. ContextAt(q, v).start \in Int /\ ContextAt(q, v).start = u.play_start + q.offset
      BY <2>1, <3>1, ContextFacts
    <3>7. lo = base + k
      <4> HIDE DEF u, tape, shown
      <4> QED
        BY <1>1, <2>3, <3>4, <3>6, WalkOn DEF tape
    <3>8. Len(tape) \in Nat
      BY <1>2, LenProperties
    <3> DEFINE m == k + size
    <3>9. /\ m \in Nat /\ base + m <= Len(tape) /\ base + k + size <= Len(tape)
          /\ Adds(base, k, lo) /\ Adds(k, size, m)
      BY <2>3, <3>5, <3>7, <3>8 DEF Adds
    <3> HIDE DEF m
    <3>10. Joined(q, tape, base, k, lo, size, m)
      BY <1>1, <2>1, <2>3, <3>5, <3>9, SeenOn
    <3>11. walked = SeenFrom(q, tape, base, m)
      BY <2>3, <2>6, <3>5, <3>10 DEF Joined, WalkedBy
    <3> QED
      BY <2>4, <3>9, <3>11
  <2> QED
    BY <2>5, <2>6
<1> QED
  BY <1>3, <1>4

LEMMA MarketWalks == MarketInv => WalkContiguous
<1> SUFFICES ASSUME MarketInv PROVE \A r \in Reader : WalkShown(Query[r], readers[r])
  BY DEF WalkContiguous, WalkShown, WalkedBy, AllFrom, ShowsAll
<1> QED
  BY ReaderServed, WalkOK DEF MarketInv

\* Whatever the session did between the reads of its row, its events, the cache
\* and the source, whoever filled the cache, however candles were paged and
\* whatever the source returned beyond the frontier: a client is shown exactly
\* the page of a frontier the session has had since the version its request
\* read, the page names that frontier, and the pages it follows leave nothing
\* out.
THEOREM PagesAlwaysSound == MarketSpec => []PagesSound
<1>1. MarketInv => PagesSound
  BY MarketTyped, MarketExact, MarketWalks DEF PagesSound
<1> QED
  BY <1>1, MarketInvariance, PTL

\* Nothing a client was ever shown, from the cache or not, lies ahead of the
\* frontier its session has now.
THEOREM NothingShownAhead == MarketSpec => []NothingAhead
<1>1. MarketInv => NothingAhead
  <2> SUFFICES ASSUME MarketInv, NEW r \in Reader, readers[r].shown # NoPage,
                      NEW q, q = Query[r], NEW u, u = SetupOf(domain_events[q.session])
               PROVE  /\ sessions[q.session].principal = q.principal
                      /\ \A item \in ToSet(readers[r].kept \o readers[r].shown.page.items) :
                            /\ u.play_start + item.offset <= FrontierOf(domain_events[q.session])
                            /\ u.play_start + item.offset < u.play_end
    BY DEF NothingAhead
  <2> DEFINE reader == readers[r]
             shown == reader.shown
             log == domain_events[q.session]
             items == shown.page.items
  <2>1. q \in MarketQuery /\ Inv /\ Served(q, reader)
    BY ReaderServed DEF MarketInv
  <2>2. Owned(q) /\ Walk(q, reader.kept, reader.cursor) /\ ShownOK(q, shown, reader.cursor)
    BY <2>1 DEF Served
  <2>0. PICK v \in Reading : ShownAs(q, shown, v)
    BY <2>2 DEF ShownOK
  <2>3. Known(q, v) /\ shown.after \in Cursor
    BY <2>0, <2>2 DEF ShownOK, ShownAs
  <2>4. PICK overshoot \in BOOLEAN :
           shown.page = PageOf(q, ContextAt(q, v), shown.after, overshoot)
    BY <2>0 DEF ShownAs
  <2>5. PageBehind(q, FrontierAtVersion(log, v.at), shown.page)
    BY <2>1, <2>3, <2>4, PageIsBehind
  <2>6. /\ FrontierAtVersion(log, v.at) \in Int /\ FrontierAtVersion(log, v.at) <= FrontierOf(log)
        /\ FrontierOf(log) \in Int
    BY <2>1, <2>2, <2>3, WindowFacts DEF Known
  <2>7. ASSUME NEW item \in ToSet(items)
        PROVE  /\ u.play_start + item.offset <= FrontierOf(log)
               /\ u.play_start + item.offset < u.play_end
    <3>1. ItemBehind(q, FrontierAtVersion(log, v.at), item)
      BY <2>5, <2>7 DEF PageBehind
    <3>2. /\ u.play_start + item.offset \in Int
          /\ u.play_start + item.offset <= FrontierAtVersion(log, v.at)
          /\ u.play_start + item.offset < u.play_end
      BY <3>1 DEF ItemBehind
    <3> HIDE DEF log
    <3> QED
      BY <2>6, <3>2
  <2>8. /\ reader.kept \in Seq(ToSet(reader.kept))
        /\ \A item \in ToSet(reader.kept) :
              /\ u.play_start + item.offset <= FrontierOf(log)
              /\ u.play_start + item.offset < u.play_end
    <3>1. CASE q.channel = "CANDLES"
      <4>1. reader.kept = <<>>
        BY <2>2, <3>1 DEF Walk
      <4> QED
        BY <4>1 DEF ToSet
    <3>2. CASE q.channel # "CANDLES"
      <4> DEFINE tape == Source[q.channel]
      <4>1. q.channel \in DOMAIN Source
        BY <2>1, <3>2, QueryFacts
      <4>2. PICK base, k : WalkAt(q, tape, reader.kept, reader.cursor, base, k)
        BY <2>2, <3>2 DEF Walk
      <4>3. /\ base \in Nat /\ k \in Nat /\ base + k <= Len(tape)
            /\ reader.kept = SeenFrom(q, tape, base, k)
            /\ Behind(tape, base, k, FrontierOf(log), u.play_end)
        BY <4>2 DEF WalkAt, From
      <4>4. Len(tape) \in Nat
        BY <4>1, TapeFacts
      <4>5. DOMAIN reader.kept = 1 .. k /\ \A i \in 1 .. k : reader.kept[i] = Seen(q, tape[base + i])
        BY <4>3 DEF SeenFrom
      <4>6. ASSUME NEW i \in 1 .. k
            PROVE  /\ u.play_start + reader.kept[i].offset <= FrontierOf(log)
                   /\ u.play_start + reader.kept[i].offset < u.play_end
        <5> DEFINE j == base + i
        <5>1. j \in 1 .. Len(tape) /\ base < j /\ j <= base + k
          BY <4>3, <4>4
        <5>2. reader.kept[i] = Seen(q, tape[j])
          BY <4>5
        <5> HIDE DEF j
        <5>3. tape[j] \in MarketEvent
          BY <4>1, <5>1, TapeFacts
        <5>4. u.play_start + reader.kept[i].offset = tape[j].ts
          BY <2>1, <2>2, <5>2, <5>3, SeenIs
        <5> QED
          BY <4>3, <5>1, <5>4 DEF Behind
      <4>7. reader.kept \in Seq(ToSet(reader.kept))
        <5>1. \A i \in 1 .. k : reader.kept[i] \in ToSet(reader.kept)
          BY <4>5 DEF ToSet
        <5>2. reader.kept = [i \in 1 .. k |-> reader.kept[i]]
          BY <4>3, <4>5 DEF SeenFrom
        <5>3. reader.kept \in [1 .. k -> ToSet(reader.kept)]
          BY <5>1, <5>2
        <5> QED
          BY <4>3, <5>3, SeqDef
      <4> QED
        BY <4>5, <4>6, <4>7 DEF ToSet
    <3> QED
      BY <3>1, <3>2
  <2>9. ToSet(reader.kept \o items) \subseteq ToSet(reader.kept) \cup ToSet(items)
    <3> DEFINE S == ToSet(reader.kept) \cup ToSet(items)
    <3>1. items \in Seq(S) /\ reader.kept \in Seq(S)
      <4>1. items \in Seq(ToSet(items))
        BY <2>5 DEF PageBehind
      <4> QED
        BY <2>8, <4>1, SeqMonotonic
    <3> HIDE DEF S, items, reader
    <3>2. reader.kept \o items \in Seq(S)
      BY <3>1, ConcatProperties
    <3>3. \A i \in DOMAIN (reader.kept \o items) : (reader.kept \o items)[i] \in S
      BY <3>2, ElementOfSeq, LenProperties
    <3> QED
      BY <3>3 DEF ToSet, S
  <2>10. sessions[q.session].principal = q.principal
    BY <2>2 DEF Owned
  <2> HIDE DEF reader, items, log, shown
  <2>11. \A item \in ToSet(reader.kept \o items) :
            /\ u.play_start + item.offset <= FrontierOf(log)
            /\ u.play_start + item.offset < u.play_end
    BY <2>7, <2>8, <2>9
  <2> QED
    BY <2>10, <2>11 DEF reader, items, log, shown
<1> QED
  BY <1>1, MarketInvariance, PTL

=============================================================================
