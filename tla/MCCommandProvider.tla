------------------------- MODULE MCCommandProvider -------------------------
(* Children that keep the protocol and children that do not: answers before *)
(* the request is read, longer than a pipe, over the limit, without newline, *)
(* with more after it, in the same read or not and within the limit or over  *)
(* it, empty, for another request, and failing exits.                       *)
EXTENDS CommandProvider

Outputs ==
  {<<"response", "newline">>,
   <<"response", "pad", "pad", "pad", "newline">>,
   <<"response", "pad", "pad">>,
   <<"response", "newline", "junk", "pad", "newline">>,
   <<"response", "pad", "pad", "pad", "pad", "newline">>,
   <<"response", "pad", "pad", "pad", "newline", "junk">>,
   <<"declared", "newline">>, <<"wrongId", "newline">>, <<"huge", "newline">>,
   <<"junk", "pad">>, <<"newline", "response">>, << >>}

MCPrograms ==
  [readsFirst : BOOLEAN, output : Outputs, drains : BOOLEAN, succeeds : BOOLEAN]
=============================================================================
