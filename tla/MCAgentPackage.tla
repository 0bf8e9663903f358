--------------------------- MODULE MCAgentPackage ---------------------------
EXTENDS AgentPackage

MCExtras == <<"plan">>

MCCommands == [origin |-> 2, target |-> 2]

\* An export policy may exclude and redact a file at once.
MCPolicy == [exclude |-> {"plan"}, redact |-> {"result", "plan"}]

MCTwoOffers == {Name("complex", NoPolicy), Name("complex", MCPolicy)}

MCLocalOffers ==
    {MCTwoOffers,
     {Name("complex", NoPolicy)},
     {Name("reference", MCPolicy)}}

\* Two packages in turn are looked at with workspaces elsewhere.
MCDefaultPlace == {o \in MCLocalOffers : o # MCTwoOffers}

\* Every tool call of the documented values, a tool that is not allowed, and
\* every defect, in a package that is otherwise the reference one.
MCForeignNames ==
    {[Name("foreign", NoPolicy) EXCEPT !.tool = t] :
        t \in {t \in ToolCalls : t.name = "fs.write_file"}
              \cup {Call("resources/read", "read_only", "completed",
                         "never_retry", "not_required")}}
    \cup {[Name("foreign", NoPolicy) EXCEPT !.defect = d] :
            d \in {"secret", "path", "embedded", "optional", "unbound",
                   "hosted", "unrebound", "quarantine"}}
=============================================================================
