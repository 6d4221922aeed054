------------------------- MODULE CapabilityGrantsBook -------------------------
(* CapabilityGrants implements GrantBook: the book is what the grants file       *)
(* says to a reader, and a record takes effect when the file is renamed.         *)
EXTENDS CapabilityGrants

Allowed == {s \in Scripts : pc[s] = "allowed"}

Book == INSTANCE GrantBook WITH passed <- Allowed, book <- Stored, unread <- misread,
                                muddled <- overlapped

\* Requests, events, answers and the steps of a save, in any order and cut short at
\* any point, amount to approvals of one grant and records of one grant; the book loses
\* what it held only to a record by one who could not read it, or to overlapping ones.
KeepsBook == Book!BookSpec
=============================================================================
