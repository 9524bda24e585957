--------------------------- MODULE MCSymbolLookup ---------------------------
(* Model constants for SymbolLookup. *)
EXTENDS SymbolLookup

\* A function of eight addresses with inline frames of two depths, two
\* symbols of one range and depth, one after it, one that is empty and one
\* that covers them all.
Symbol(s, e, d, t) == [start |-> s, end |-> e, depth |-> d, table |-> t]

SomeSymbols ==
    {Symbol(1, 5, 0, <<0, 2>>), Symbol(1, 3, 1, <<0, 0>>),
     Symbol(2, 4, 1, <<>>), Symbol(2, 3, 2, <<0>>), Symbol(2, 2, 0, <<0>>),
     Symbol(5, 6, 0, <<1>>), Symbol(0, 6, 0, <<1, 2, 4>>)}

SomeAddresses == 0 .. 6
=============================================================================
