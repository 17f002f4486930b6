----------------------------- MODULE MCNegotiation -----------------------------
(***************************************************************************)
(* Negotiation on small instances.  The numerals cover both ends of what   *)
(* the field may hold, one step beyond each, and three real versions, the  *)
(* compiled-in one (5) between them.  The names are all texts of at most   *)
(* two symbols; the nonsense is every pong with a numeral that cannot be   *)
(* used, one with too few fields, and one with no numeral.                 *)
(***************************************************************************)
EXTENDS Negotiation

MCValue == [t \in {"-1", "0", "4", "5", "6", "9", "10"} |->
              CASE t = "-1" -> -1 [] t = "0" -> 0 [] t = "4" -> 4 [] t = "5" -> 5
                [] t = "6" -> 6 [] t = "9" -> 9 [] t = "10" -> 10]
MCProtocols == {"4", "5", "6"}
MCNames     == BoundedSeq({"x", ";", "\\"}, 2)
MCNonsense  == {Render(<<"x">>, t) : t \in {"-1", "0", "10", "x"}}
                 \cup {<<>>, <<"x", ";", "x", ";", "5">>, <<"\\">>}

===============================================================================
