--------------------------- MODULE MC_FileRunner ---------------------------
(***************************************************************************)
(* Programs with few constants, as bytes of small instructions.             *)
(***************************************************************************)
EXTENDS FileRunner

\* Numbers of one and two digits and one that fits no buffer; a function with bytes that
\* look like marks and lengths; a string.
MCBytecodes == {
    [consts |-> <<Integer(-3), Integer(9)>>, ins |-> <<1, 0, 4>>],
    [consts |-> <<Function(<<3, 2, 4>>, 2, 1), Integer(0)>>, ins |-> <<4, 4>>],
    [consts |-> <<Integer(1), Function(<<>>, 0, 0)>>, ins |-> <<>>],
    [consts |-> <<Integer(100)>>, ins |-> <<1>>],
    [consts |-> <<String(<<3>>), Integer(1)>>, ins |-> <<2, 0>>] }
=============================================================================
