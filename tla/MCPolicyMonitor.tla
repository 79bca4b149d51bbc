-------------------------- MODULE MCPolicyMonitor --------------------------
(* Policy files for TLC: two files that may define a policy "shared", and one
   that also redefines a reserved policy. *)
EXTENDS PolicyMonitor

CONSTANTS default, shared, strict, open

MCBuiltin == [p \in Reserved |-> strict]

Table(d, s) == [p \in Policies |-> IF p = default THEN d ELSE s]

MCTexts ==
    {Malformed, NotATable,
     Table(NoPolicy, NoPolicy), Table(NoPolicy, open), Table(NoPolicy, strict), Table(open, open)}

\* Well-formed files that define the policy or do not.
MCTables == {Table(NoPolicy, NoPolicy), Table(NoPolicy, open)}
=============================================================================
