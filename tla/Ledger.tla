------------------------------- MODULE Ledger --------------------------------
(***************************************************************************)
(* What fair share promises: every user owes an amount that halves with    *)
(* every half-life that passes, for everybody at once, that grows by what  *)
(* is charged and shrinks by what is given back, and that is never less    *)
(* than nothing.  domain/fairshare.py keeps no such amount: it is shown to *)
(* behave as if it did, by Accounting.                                     *)
(***************************************************************************)
EXTENDS Integers

CONSTANTS
    Users,
    Amounts         \* what may be charged at once

VARIABLE owed

ledgerVars == <<owed>>

AtLeastNothing(x) == IF x < 0 THEN 0 ELSE x

LedgerInit == owed = [u \in Users |-> 0]

HalfLifePasses == owed' = [u \in Users |-> owed[u] \div 2]

Charged(u, x) == owed' = [owed EXCEPT ![u] = @ + x]

GivenBack(u, x) == owed' = [owed EXCEPT ![u] = AtLeastNothing(@ - x)]

LedgerNext ==
    \/ HalfLifePasses
    \/ \E u \in Users, x \in Amounts : Charged(u, x) \/ GivenBack(u, x)

LedgerSpec == LedgerInit /\ [][LedgerNext]_ledgerVars
=============================================================================
