-------------------------- MODULE AttachmentService --------------------------
(***************************************************************************)
(* The attachment service's bookkeeping of one tenant's generation number  *)
(* (control_plane/attachment_service): the row of the tenant_shards table, *)
(* the copy of it in memory that `validate` answers from, and the requests *)
(* by which a generation, once issued, reaches a pageserver.               *)
(***************************************************************************)
EXTENDS Integers, FiniteSetsExt

CONSTANTS
    Pageservers,
    NoNode,
    MaxGeneration     \* bound: no attach is started from this generation on

ASSUME ServiceAssumption ==
    /\ IsFiniteSet(Pageservers)
    /\ NoNode \notin Pageservers
    /\ MaxGeneration \in Nat \ {0}

VARIABLES
    row,              \* the durable row: generation, generation_pageserver
    generation,       \* TenantState::generation, what `validate` compares with
    op,               \* the attach_hook or reconcile in progress
    requests          \* location_config requests on their way to pageservers

serviceVars == <<row, generation, op, requests>>

NoOp == [kind |-> "none", node |-> NoNode, generation |-> 0]

ServiceInit ==
    \E p \in Pageservers :
        /\ row = [generation |-> 1, node |-> p]
        /\ generation = 1
        /\ op = NoOp
        /\ requests = {}

-----------------------------------------------------------------------------
(* Persistence: each of these is one UPDATE of the row.                    *)

increment_generation(n) ==
    row' = [generation |-> row.generation + 1, node |-> n]

re_attach_row(n) ==
    row' = [row EXCEPT !.generation = IF row.node = n THEN @ + 1 ELSE @]

-----------------------------------------------------------------------------
(* attach_hook persists the new generation, and only when that has         *)
(* returned takes the lock, sets the copy in memory and answers; the       *)
(* caller then configures the location on the pageserver.                  *)

AttachHook(n) ==
    /\ op = NoOp
    /\ row.generation < MaxGeneration
    /\ increment_generation(n)
    /\ op' = [kind |-> "attach_hook", node |-> n, generation |-> row.generation + 1]
    /\ UNCHANGED <<generation, requests>>

AttachHookReply ==
    /\ op.kind = "attach_hook"
    /\ generation' = op.generation
    /\ requests' = requests \cup {[node |-> op.node, generation |-> op.generation]}
    /\ op' = NoOp
    /\ UNCHANGED row

(* Reconciler::reconcile when the observed location is not the wanted one: *)
(* the generation is persisted and sent to the destination at once; the    *)
(* copy in memory follows in process_result, after the call to the         *)
(* pageserver and the notification of the compute have ended, one way or   *)
(* the other.                                                              *)
Reconcile(n) ==
    /\ op = NoOp
    /\ row.generation < MaxGeneration
    /\ increment_generation(n)
    /\ op' = [kind |-> "reconcile", node |-> n, generation |-> row.generation + 1]
    /\ requests' = requests \cup {[node |-> n, generation |-> row.generation + 1]}
    /\ UNCHANGED generation

process_result ==
    /\ op.kind = "reconcile"
    /\ generation' = Max({generation, op.generation})
    /\ op' = NoOp
    /\ UNCHANGED <<row, requests>>

(* A restart of the service: memory is loaded from the table.  A call in   *)
(* progress dies with the process; what it persisted stays.                *)
RestartService ==
    /\ op # NoOp
    /\ generation' = row.generation
    /\ op' = NoOp
    /\ UNCHANGED <<row, requests>>

-----------------------------------------------------------------------------
(* The two calls pageservers make.                                         *)

re_attach(n) ==
    /\ re_attach_row(n)
    /\ UNCHANGED <<generation, op, requests>>

re_attach_reply(g) ==
    /\ generation' = Max({generation, g})
    /\ UNCHANGED <<row, op, requests>>

validate(g) == generation = g

=============================================================================
