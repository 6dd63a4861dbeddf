----------------------------- MODULE MCMailbox -----------------------------
EXTENDS Mailbox

CONSTANTS idle, a

\* a waits on its mailbox; handlers notify, one less and one more urgent than
\* SysTick
OneTask == {a}
BelowAndAbove == {1, 3}
CallsOfEach == a :> {"wait", "timeout"}

\* The hypothesis of FalseOnlyAfterTheTime holds here.
ASSUME TimeoutsHold == TimeoutsBelowHalf
=============================================================================
