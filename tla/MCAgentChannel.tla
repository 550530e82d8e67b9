--------------------------- MODULE MCAgentChannel ---------------------------
(***************************************************************************)
(* Instances of AgentChannel: two tabs of one workspace and one of another.*)
(***************************************************************************)
EXTENDS AgentChannel

ThreeTabs == (1 :> "w") @@ (2 :> "w") @@ (3 :> "v")
Named == (1 :> {}) @@ (2 :> {3000}) @@ (3 :> {3000})

Request(kind, from, target, text) == [kind |-> kind, from |-> from, target |-> target, text |-> text]

\* By number and by word, across the border, to oneself, with a text that is
\* refused; a list and a colour.
MCRequests == {
    Request("send", 1, IdWord(2), "short"), Request("literal", 1, 3000, "short"),
    Request("send", 3, IdWord(2), "short"), Request("send", 2, IdWord(2), "short"),
    Request("send", 2, IdWord(1), "long"), Request("ls", 1, 0, "short"),
    Request("ls", 2, 0, "long"), Request("color", 2, 0, "short")}

\* One send by number, with a text that is not refused.
OneSend == {Request("send", 1, IdWord(2), "short")}
=============================================================================
