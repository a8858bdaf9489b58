---------------------------- MODULE MCPackageOps ----------------------------
(* PackageOps with one operation of each kind, named after it.  Remove is   *)
(* left out: no definition tells it from install.                           *)
EXTENDS PackageOps

OneOfEach == Kinds \ {"remove"}
KindIsName == [o \in OneOfEach |-> o]
=============================================================================
