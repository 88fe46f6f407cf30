---------------------------- MODULE Commitments ----------------------------
(***************************************************************************)
(* CommitmentService (apps/api/.../commitments): the episode of a blind    *)
(* session is drawn from an eligible list with a server secret. The draw   *)
(* is committed to while the session is in SETUP and its secret revealed   *)
(* once the session is COMPLETED, beside the lifecycle of Sessions.        *)
(*                                                                         *)
(* prepare reads the status and inserts in one transaction that locks no   *)
(* row, so the two are separate steps. A digest stands for what was        *)
(* digested, which makes it collision-free; HMAC-SHA256 is a function into *)
(* a Space that need not be a multiple of the list's length.               *)
(***************************************************************************)
EXTENDS Sessions, SequencesExt

CONSTANTS
    CommitmentId,       \* commitment_id values
    Secret,             \* what entropy(32) may return
    Nonce,              \* player nonces
    EpisodeList,        \* the eligible lists callers pass
    Hmac(_, _, _),      \* Hmac(secret, message, counter), below Space
    Space,              \* 2^256
    MaxCounter,         \* the last counter of the draw
    MaxPrepares,        \* bound: prepare calls in flight
    NoSecret, NoCommitment

\* Texts are numbers ordered as the texts are.
Episode == [episode_id: Nat, manifest: Manifest, play_start: Int, play_end: Int]

ASSUME DrawAssumption ==
    /\ Space \in Nat \ {0}
    /\ MaxCounter \in Nat
    /\ MaxPrepares \in Nat
    /\ EpisodeList \subseteq Seq(Episode)
    /\ NoSecret \notin Secret

VARIABLES
    commitments,        \* table commitments: id -> row, or NoCommitment
    prepares            \* prepare calls between status check and INSERT

commitmentVars == <<commitments, prepares>>

-----------------------------------------------------------------------------
\* SelectionSetup, and _selection_setup of a committed setup: the fields that
\* affect the selection, so neither the manifest nor the window itself.
SelectionSetup(u) ==
    [ruleset_hash |-> u.ruleset_hash, tier |-> u.tier, warmup |-> u.warmup,
     duration |-> u.play_end - u.play_start]

\* _canonical_eligible_bytes refuses any other list.
Canonical(episodes) ==
    /\ episodes # <<>>
    /\ \A i, j \in DOMAIN episodes :
          i < j => episodes[i].episode_id < episodes[j].episode_id

\* Mutation: every value of the HMAC is taken.
DrawLimit_all(count) == Space

\* The candidates below the largest multiple of the list's length are taken.
DrawLimit(count) == Space - (Space % count)

\* _draw_index: the counters whose candidate is accepted; the first one counts.
Accepted(secret, message, count) ==
    {k \in 0..MaxCounter : Hmac(secret, message, k) < DrawLimit(count)}

DrawCounter(secret, message, count) == Min(Accepted(secret, message, count))
DrawIndex(secret, message, count) ==
    Hmac(secret, message, DrawCounter(secret, message, count)) % count

\* What the HMAC of the draw covers beside the counter.
Message(setup, episodes, nonce) == <<setup, episodes, nonce>>

\* The inputs on which derive_selection does not raise.
Derivable(setup, episodes, secret, nonce) ==
    /\ Canonical(episodes)
    /\ Accepted(secret, Message(setup, episodes, nonce), Len(episodes)) # {}

CommitmentHash(secret, setup, episodes, nonce) == <<secret, setup, episodes, nonce>>

\* The value of a digest is an unsigned number of its width.
ASSUME HmacAssumption ==
    \A secret \in Secret, u \in Setup, episodes \in EpisodeList, nonce \in Nonce,
       k \in 0..MaxCounter :
        Hmac(secret, Message(SelectionSetup(u), episodes, nonce), k) \in 0 .. Space - 1

CommitmentHashes ==
    Secret \X {SelectionSetup(u) : u \in Setup} \X EpisodeList \X Nonce

\* A row of table commitments.
Draw ==
    [session: SessionId, setup_hash: {SelectionSetup(u) : u \in Setup},
     eligible_set_hash: EpisodeList, commitment_hash: CommitmentHashes, nonce: Nonce,
     index: Nat, counter: 0..MaxCounter, selected: Episode,
     sealed: [secret: Secret, session: SessionId, id: CommitmentId],
     revealed: Secret \cup {NoSecret}]

ASSUME NoCommitmentAssumption == NoCommitment \notin Draw

\* derive_selection
Derive(setup, episodes, secret, nonce) ==
    LET message == Message(setup, episodes, nonce)
    IN  [setup_hash |-> setup, eligible_set_hash |-> episodes,
         commitment_hash |-> CommitmentHash(secret, setup, episodes, nonce),
         index |-> DrawIndex(secret, message, Len(episodes)),
         counter |-> DrawCounter(secret, message, Len(episodes))]

\* verify_completion_proof of a stored row whose secret is out, against a setup
\* and a list that somebody claims it was drawn from.
Verifies(setup, episodes, row) ==
    /\ Derivable(setup, episodes, row.revealed, row.nonce)
    /\ LET derived == Derive(setup, episodes, row.revealed, row.nonce)
       IN  /\ derived.setup_hash = row.setup_hash
           /\ derived.eligible_set_hash = row.eligible_set_hash
           /\ derived.commitment_hash = row.commitment_hash
           /\ derived.index = row.index
           /\ derived.counter = row.counter
           /\ episodes[row.index + 1] = row.selected

-----------------------------------------------------------------------------
\* A session in SETUP with the catalogue filled: Register and CreateSession
\* lead there.
SetupInit(s, p) ==
    /\ sessions = [x \in SessionId |-> IF x = s
          THEN [principal |-> p, status |-> "SETUP", version |-> 0,
                ruleset_id |-> NoRuleset]
          ELSE NoRow]
    /\ domain_events = [x \in SessionId |-> <<>>]
    /\ rulesets = [r \in RulesetId |-> NoRuleset]
    /\ registered = Manifest
    /\ revoked = {}
    /\ commits = {}

CommitmentsInit ==
    /\ \E s \in SessionId, p \in Principal : SetupInit(s, p)
    /\ commitments = [id \in CommitmentId |-> NoCommitment]
    /\ prepares = {}

\* _require_session
Owns(s, p, status) ==
    /\ Exists(s)
    /\ sessions[s].principal = p
    /\ sessions[s].status = status

\* prepare_episode_selection: the draw, and the status check of the transaction.
\* The seal binds the secret to the session and the commitment id.
PrepareCheck(id, s, p, u, episodes, secret, nonce) ==
    LET setup == SelectionSetup(u)
        drawn == Derive(setup, episodes, secret, nonce)
    IN  /\ Cardinality(prepares) < MaxPrepares
        /\ Derivable(setup, episodes, secret, nonce)
        /\ Owns(s, p, "SETUP")
        /\ prepares' = prepares \cup
              {[id |-> id,
                row |-> [session |-> s, setup_hash |-> drawn.setup_hash,
                         eligible_set_hash |-> drawn.eligible_set_hash,
                         commitment_hash |-> drawn.commitment_hash, nonce |-> nonce,
                         index |-> drawn.index, counter |-> drawn.counter,
                         selected |-> episodes[drawn.index + 1],
                         sealed |-> [secret |-> secret, session |-> s, id |-> id],
                         revealed |-> NoSecret]]}
        /\ UNCHANGED <<vars, commitments>>

\* The primary key and the unique constraint on (session_id, kind).
Unique(call) ==
    /\ commitments[call.id] = NoCommitment
    /\ \A id \in CommitmentId :
          commitments[id] # NoCommitment => commitments[id].session # call.row.session

\* prepare_episode_selection: the INSERT, or IntegrityError and CommitmentExists.
PrepareInsert(call) ==
    /\ call \in prepares
    /\ prepares' = prepares \ {call}
    /\ commitments' = IF Unique(call) THEN [commitments EXCEPT ![call.id] = call.row]
                                      ELSE commitments
    /\ UNCHANGED vars

\* _unseal_secret authenticates the session and the commitment id.
Unsealed(s, id) ==
    LET sealed == commitments[id].sealed
    IN  IF sealed.session = s /\ sealed.id = id THEN sealed.secret ELSE NoSecret

\* The checks of reveal_completed on the row it read.
Revealable(s, id) ==
    LET row    == commitments[id]
        secret == Unsealed(s, id)
    IN  /\ row # NoCommitment
        /\ row.session = s
        /\ secret # NoSecret
        /\ row.revealed \in {NoSecret, secret}
        /\ row.commitment_hash =
              CommitmentHash(secret, row.setup_hash, row.eligible_set_hash, row.nonce)

\* Mutation: the secret is handed out as soon as the setup is pinned.
Reveal_anyStatus(s, p, id) ==
    /\ Owns(s, p, sessions[s].status)
    /\ Revealable(s, id)
    /\ commitments' = [commitments EXCEPT ![id].revealed = Unsealed(s, id)]
    /\ UNCHANGED <<vars, prepares>>

\* reveal_completed. A second call finds the secret out and changes nothing.
Reveal(s, p, id) ==
    /\ Owns(s, p, "COMPLETED")
    /\ Revealable(s, id)
    /\ commitments' = [commitments EXCEPT ![id].revealed = Unsealed(s, id)]
    /\ UNCHANGED <<vars, prepares>>

CommitmentStep ==
    \/ \E id \in CommitmentId, s \in SessionId, p \in Principal, u \in Setup,
          episodes \in EpisodeList, secret \in Secret, nonce \in Nonce :
          PrepareCheck(id, s, p, u, episodes, secret, nonce)
    \/ \E call \in prepares : PrepareInsert(call)
    \/ \E s \in SessionId, p \in Principal, id \in CommitmentId : Reveal(s, p, id)

-----------------------------------------------------------------------------
(***************************************************************************)
(* Properties                                                              *)
(***************************************************************************)

Rows == {commitments[id] : id \in CommitmentId} \ {NoCommitment}

\* A secret decides which future the player sees, so it is out only when there
\* is no future left: the session of a revealed row stands at the end of its
\* window for good, even when the row was inserted late.
SecretsSealedUntilEnd ==
    \A row \in Rows : row.revealed # NoSecret =>
        /\ sessions[row.session].status = "COMPLETED"
        /\ AtEnd(row.session)
        /\ row.revealed = row.sealed.secret

\* A session is bound to one draw: preparing again, also while another prepare
\* is under way, neither adds a second nor changes the first.
OneDrawPerSession ==
    \A i, j \in CommitmentId :
        /\ commitments[i] # NoCommitment
        /\ commitments[j] # NoCommitment
        /\ commitments[i].session = commitments[j].session
        => i = j

\* "derive an unbiased deterministic selection": for the list behind every
\* stored draw each place is reached by equally many HMAC values, although the
\* value space is no multiple of the list's length, and the place drawn is one
\* of them.
DrawUnbiased ==
    \A row \in Rows :
        LET count == Len(row.eligible_set_hash)
            reach(i) == Cardinality({x \in 0 .. Space - 1 :
                                        x < DrawLimit(count) /\ x % count = i})
        IN  /\ row.index \in 0 .. count - 1
            /\ \A i \in 0 .. count - 1 : reach(i) = reach(0)

=============================================================================
