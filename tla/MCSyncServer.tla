--------------------------- MODULE MCSyncServer ---------------------------
(* Heads with a line end before the blank line, with false starts of it, at *)
(* the limit, one over it and unfinished, some followed by the first bytes  *)
(* of the body; bodies at the limit, over it and unfinished by a byte.      *)
EXTENDS SyncServer

Text(bytes) ==
  [bytes |-> bytes, target |-> TRUE, fields |-> TRUE, token |-> TRUE,
   route |-> "refs", form |-> TRUE, declared |-> {}, body |-> 0]

Blank == <<"r", "n", "r", "n">>

Heads ==
  {Text(<<"x", "r", "n">> \o Blank \o <<"x">>), Text(<<"r", "r", "n", "r">> \o Blank),
   Text(<<"x", "r", "n", "r", "r", "n", "r", "n">>),
   Text(<<"x", "n", "r", "x", "r", "n", "r", "x">>), Text(<<"x", "x">> \o Blank \o Blank)}

Post(declared, body) ==
  [Text(<<"x">> \o Blank) EXCEPT !.route = "export", !.declared = declared, !.body = body]

Short == Text(Blank)

MCRequests ==
  Heads
    \cup {[Short EXCEPT !.target = FALSE], [Short EXCEPT !.fields = FALSE],
          [Short EXCEPT !.token = FALSE], [Short EXCEPT !.route = "none"],
          [Short EXCEPT !.route = "method"], [Short EXCEPT !.form = FALSE],
          [Short EXCEPT !.declared = {1}]}
    \cup {Post({}, 2), Post({2}, 2), Post({}, 3), Post({}, 5), Post({3}, 3),
          Post({1, 2}, 1), [Post({2}, 2) EXCEPT !.form = FALSE]}
=============================================================================
