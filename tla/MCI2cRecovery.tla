---------------------------- MODULE MCI2cRecovery ----------------------------
(* Two writers of any number, valid or not, for TLC. *)
EXTENDS I2cRecovery, TLC

CONSTANTS a, b

WriterSymmetry == Permutations({a, b})
Writers == {a, b}
Values == {1, 2, 3}
Least == -1
=============================================================================
