--------------------------- MODULE ToolRegistry ---------------------------
(***************************************************************************)
(* The tool registry (registry.py) and the view a subagent is given of it. *)
(*                                                                         *)
(* A registry is a dictionary from names to tools.  Nothing the agent does *)
(* adds a tool to one, so a registry is modelled by the set of its tools:  *)
(* the built-in registry is Tool, the registry of a subagent is the subset *)
(* of it that scoped() selects, and get() is membership.                   *)
(***************************************************************************)

CONSTANTS
    Tool,         \* the tools the built-in modules register
    NamespaceOf,  \* NamespaceOf[t]: "git", "github", "ci", "code", ...
    ScopeOf       \* ScopeOf[t]: "read", or "write" for a tool that mutates

Scope == {"read", "write"}

META_NAMESPACE == "tools"

ASSUME RegistryAssumption ==
    /\ NamespaceOf \in [Tool -> STRING]
    /\ ScopeOf \in [Tool -> Scope]

-----------------------------------------------------------------------------

(***************************************************************************)
(* scoped(namespaces, scope).  An empty list of namespaces filters         *)
(* nothing: the code tests the list's truth value, not that it is None.    *)
(* Scope "read" keeps the read tools, scope "write" keeps every tool.      *)
(***************************************************************************)
Scoped(view, namespaces, scope) ==
    {t \in view : /\ namespaces = {} \/ NamespaceOf[t] \in namespaces
                  /\ scope = "write" \/ ScopeOf[t] = scope}

DomainSpecs(view) == {t \in view : NamespaceOf[t] # META_NAMESPACE}

MetaSpecs(view) == {t \in view : NamespaceOf[t] = META_NAMESPACE}

SpecsFor(view, names) == view \cap names

=============================================================================
