---------------------------- MODULE MCCompletion ----------------------------
(***************************************************************************)
(* Small instances of Completion on one chat: r1 and r2 are prompts of its *)
(* owner, r3 comes from another user.                                      *)
(***************************************************************************)
EXTENDS Completion, TLC

CONSTANTS r1, r2, r3, chat, alice, mallory

MCTarget == [r \in Requests |-> chat]
MCCaller == [r \in Requests |-> IF r = r3 THEN mallory ELSE alice]
MCOwner == [c \in Chats |-> alice]

\* Sound for safety when all requests have the same chat, caller and prompt kind.
MCSymmetry == Permutations(Requests)

=============================================================================
