---------------------------- MODULE MCChatFrames ----------------------------
(* One request whose stream has up to two lines and whose max_tokens is above *)
(* both caps, next to one whose stream is empty and max_tokens below them.    *)
EXTENDS ChatFrames

CONSTANTS r1, r2

MCMaxTokens == [r \in Requests |-> IF r = r1 THEN {4} ELSE {1}]
MCMaxLines == [r \in Requests |-> IF r = r1 THEN 2 ELSE 0]

LineOf(content, reasoning, tools) ==
    [content |-> content, reasoning |-> reasoning, tools |-> tools]
MCLines ==
    {LineOf(TRUE, TRUE, <<>>), LineOf(FALSE, TRUE, <<1>>),
     LineOf(FALSE, FALSE, <<2, 1, 2>>), LineOf(FALSE, FALSE, <<>>)}

CapsOf(output, context) ==
    [MaxOutputLength |-> output, ContextLength |-> context]
MCCapSets == {CapsOf(3, 2)}
=============================================================================
