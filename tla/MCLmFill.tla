----------------------------- MODULE MCLmFill -----------------------------
(* Every valid truncation up to degree MaxL and order step MaxL + 1.         *)
EXTENDS TwoReal

CONSTANT MaxL

UpToMaxL ==
  {s \in [lmax : 1 .. MaxL, mmax : 0 .. MaxL, mres : 1 .. MaxL + 1] :
     ValidSize(s.lmax, s.mmax, s.mres)}
=============================================================================
