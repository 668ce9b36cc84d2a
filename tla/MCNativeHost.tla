----------------------------- MODULE MCNativeHost -----------------------------
(***************************************************************************)
(* NativeHost on the small instances of the MCNativeHost_*.cfg files: each *)
(* cfg takes the messages, replies and faults one question needs.          *)
(***************************************************************************)
EXTENDS NativeHost

\* Which contents the files have, and which worker reads a reply, is never
\* told apart by anything but equality.
Symmetric == Permutations(Contents) \union Permutations(Workers)

=============================================================================
