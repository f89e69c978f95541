----------------------------- MODULE MCGateway -----------------------------
(***************************************************************************)
(* Texts and policies for checking Gateway.  The prompt holds dangers that *)
(* the scanner sees, in a user's message and another's, and some in a list *)
(* of parts.  The completions: one with both dangers in its first content  *)
(* and further on, one with an empty first content.                        *)
(***************************************************************************)
EXTENDS Gateway

Dangers(role, shape) == [what : Contents, role : {role}, shape : {shape}]
MCPrompts ==
  {UNION {Dangers("user", "string"), Dangers("other", "string"), Dangers("user", "parts")}}

MCCompletions ==
  {[what : Contents, place : {"first", "further"}],
   [what : {"entity"}, place : {"further"}]}

\* Policies that block all, beside a route's own that blocks nothing or all as
\* well; none.
MCPolicies ==
  {[all |-> Contents, own |-> {{}}],
   [all |-> Contents, own |-> {Contents}],
   NoPolicies}
=============================================================================
