------------------------------ MODULE MCPhTable ------------------------------
EXTENDS PhTable

(* Keys that fall in both buckets and may repeat.                          *)
MCKeyVals == 0 .. 2

=============================================================================
