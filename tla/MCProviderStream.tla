-------------------------- MODULE MCProviderStream --------------------------
(* Instances of ProviderStream for TLC.                                    *)
EXTENDS ProviderStream

MCHeld == {1}

(* Letters that are said twice in a row, or again after another.           *)
MCMeant == [text |-> <<1, 2, 2, 3>>, reasoning |-> <<1, 2, 1>>]
=============================================================================
