---------------------------- MODULE MCNadimTurns ----------------------------
(***************************************************************************)
(* Small instances of NadimTurns: two concurrent turns, two keys, and one  *)
(* or two conversations.                                                   *)
(***************************************************************************)
EXTENDS NadimTurns, TLC

CONSTANTS k1, k2

Req(k, t, c) == [key |-> k, body |-> [target |-> t, command |-> c]]

\* A deletion is asked for and confirmed, by identity and by conversation id, and
\* one key comes with two bodies.
DeletionRequests ==
    {Req(k1, ByIdentity, "REQUEST_CONVERSATION_DELETION"),
     Req(k1, ByIdentity, None),
     Req(k2, 1, "CONFIRM_CONVERSATION_DELETION")}

\* Ordinary messages and commands while ownership changes hands; one of them has
\* no idempotency key.
OwnershipRequests ==
    {Req(k1, ByIdentity, None),
     Req(NoKey, ByIdentity, "RETURN_TO_AI"),
     Req(NoKey, ByIdentity, "REQUEST_CONVERSATION_DELETION")}

\* Two confirmations of one deletion under different keys.
DoubleConfirmation ==
    {Req(NoKey, ByIdentity, "REQUEST_CONVERSATION_DELETION"),
     Req(k1, 1, "CONFIRM_CONVERSATION_DELETION"),
     Req(k2, 1, "CONFIRM_CONVERSATION_DELETION")}

NoProposals == {None}
AllProposals == ControlActions \cup {None}
Symmetry == Permutations(Handlers)
=============================================================================
