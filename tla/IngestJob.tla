------------------------------ MODULE IngestJob ------------------------------
(***************************************************************************)
(* What an ingestion job promises: every chunk of the plan is pinned to    *)
(* one provider response, once; when all are pinned one result is          *)
(* published, and it is the one those responses determine. Nothing in it   *)
(* shows that the job was interrupted or how often.                        *)
(***************************************************************************)
CONSTANTS
    Chunk,              \* the chunks of the plan
    Raw,                \* provider responses
    ResultOf(_),        \* the published result of an assignment of responses
    NoRaw, NoResult

VARIABLES
    pinned,             \* the response every chunk is pinned to, or NoRaw
    published           \* the result, or NoResult

jobVars == <<pinned, published>>

JobInit ==
    /\ pinned = [c \in Chunk |-> NoRaw]
    /\ published = NoResult

Pin(c, r) ==
    /\ pinned[c] = NoRaw
    /\ pinned' = [pinned EXCEPT ![c] = r]
    /\ UNCHANGED published

\* Running a finished job again publishes the same result.
Publish ==
    /\ \A c \in Chunk : pinned[c] # NoRaw
    /\ published' = ResultOf(pinned)
    /\ UNCHANGED pinned

JobNext == Publish \/ \E c \in Chunk, r \in Raw : Pin(c, r)

JobSpec == JobInit /\ [][JobNext]_jobVars

=============================================================================
