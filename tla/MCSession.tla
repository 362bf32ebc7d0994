------------------------------ MODULE MCSession ------------------------------
(* Session on small instances: the names of databases are interchangeable. *)
EXTENDS Session, TLC

DbSymmetry == Permutations(Dbs)
=============================================================================
