----------------------------- MODULE ToolSchema -----------------------------
(***************************************************************************)
(* What the model is told of a tool's arguments and what is made of those  *)
(* it sends: the schema derived from the handler's signature (base.py),    *)
(* the check of a call against it (registry.py), and the names and schemas *)
(* the three providers are given.  Of a schema there are the names of the  *)
(* arguments; their types are told to the model but never checked.         *)
(***************************************************************************)
EXTENDS Sequences, Functions

CONSTANTS
    Tool,    \* names "namespace.action", as sequences of words and separators
    Handler  \* the arguments of each tool's handler, those with a default apart

ASSUME ToolAssumption ==
    /\ Tool \subseteq Seq(STRING)
    /\ \A t \in Tool : "__" \notin Range(t)

-----------------------------------------------------------------------------

(* _build_schema: every parameter but ctx.                                 *)
Schema(t) ==
    [properties |-> Handler[t].required \cup Handler[t].optional,
     required |-> Handler[t].required,
     closed |-> TRUE]

(* Faulty: an argument that has no place in the handler is let through.    *)
RejectsMissingOnly(t, args) == ~(Schema(t).required \subseteq args)

(* _validate: an argument is missing, or one is unexpected.                *)
Rejects(t, args) ==
    \/ ~(Schema(t).required \subseteq args)
    \/ Schema(t).closed /\ ~(args \subseteq Schema(t).properties)

(* handler(ctx, **args) does not raise TypeError.                          *)
Binds(t, args) ==
    /\ Handler[t].required \subseteq args
    /\ args \subseteq Handler[t].required \cup Handler[t].optional

(* Keywords of JSON Schema that Gemini does not take.                      *)
Dropped == {"additionalProperties", "$schema", "default", "examples", "title"}

(* Faulty: arguments that are named like a keyword are dropped with it.    *)
CleanSchemaEverywhere(s) ==
    [s EXCEPT !.closed = FALSE, !.properties = @ \ Dropped]

(* _clean_schema: only keywords are dropped; open_pull_request has an      *)
(* argument "title".                                                       *)
CleanSchema(s) == [s EXCEPT !.closed = FALSE]

(* Arguments a model may send that follows a schema: one that is not closed *)
(* takes others, too.                                                      *)
Follows(args, s) ==
    /\ s.required \cap s.properties \subseteq args
    /\ s.closed => args \subseteq s.properties

-----------------------------------------------------------------------------
(* Names at the boundary to Anthropic, which does not allow dots.          *)

Replaced(name, old, new) ==
    [i \in DOMAIN name |-> IF name[i] = old THEN new ELSE name[i]]

San(name) == Replaced(name, ".", "__")

Desan(name) == Replaced(name, "__", ".")

=============================================================================
