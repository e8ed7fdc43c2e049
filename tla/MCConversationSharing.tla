----------------------- MODULE MCConversationSharing ------------------------
(***************************************************************************)
(* Small instances of ConversationSharing.                                 *)
(***************************************************************************)
EXTENDS ConversationSharing, TLC

CONSTANTS c1, c2, w1, w2, w3, s1

Ask(c, type, max) == [conv |-> c, type |-> type, max |-> max]

\* A web conversation that is shared with use limits.
Owner1 == [c \in Conversations |-> w1]
LimitedShare == {Ask(c1, "WEB_SHARE", 1)}
\* Two web conversations continued in WhatsApp.
Owner2 == [c \in Conversations |-> IF c = c1 THEN w1 ELSE w2]
Handovers == {Ask(c1, "WHATSAPP_HANDOFF", 1), Ask(c2, "WHATSAPP_HANDOFF", 1)}
MixedShare == {Ask(c1, "WEB_SHARE", 2), Ask(c1, "WHATSAPP_HANDOFF", 1)}

Symmetry == Permutations(Requests) \cup Permutations(Tokens)
=============================================================================
