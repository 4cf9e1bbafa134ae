---------------------------- MODULE MCAgentTools ----------------------------
(* Names: 1 is the lower case of 2, in ASCII; 3 of 4, outside ASCII; 5 is  *)
(* too long for a tag and 6 too long for a text as well.  11, 12 and 13    *)
(* are content types, 21 and 22 their families.                            *)
EXTENDS AgentTools, TLC

MCNames == {1, 2, 3, 4, 5, 6, 11, 12, 13, 21, 22}
MCLower == [n \in MCNames |-> CASE n = 2 -> 1 [] n = 4 -> 3 [] OTHER -> n]
MCAscii == MCNames \ {3, 4}
MCNameLength == [n \in MCNames |-> CASE n = 5 -> 2 [] n = 6 -> 3 [] OTHER -> 1]
MCFamily == [n \in {11, 12, 13} |-> IF n = 13 THEN 22 ELSE 21]
MCMonthStarts == {0, 5, 9, 12}

Row(id, size, tags, words, type) ==
  [id |-> id, at |-> None, size |-> size, tags |-> tags, words |-> words, title |-> -id, type |-> type]
MCRows == {Row(1, 2, {1}, {2}, 11), Row(2, 2, {2, 5}, {1}, 12), Row(3, 1, {4}, {5}, 13)}

Plain == [q |-> None, tags |-> {}, match |-> None, type |-> None, from |-> None, to |-> None]
Ranges == {<<None, None>>, <<19, None>>, <<18, 20>>, <<20, 18>>, <<Bad, None>>, <<6, None>>, <<13, None>>, <<22, None>>}
Filterings ==
  {[Plain EXCEPT !.tags = t, !.match = m] : t \in {{1}, {2, 5}, {1, 5, 6}, {3}}, m \in {None, "all", Bad}}
  \cup {[Plain EXCEPT !.q = w] : w \in {1, 2, 6}}
  \cup {[Plain EXCEPT !.type = t] : t \in {11, 21, Bad}}
  \cup {[Plain EXCEPT !.from = r[1], !.to = r[2]] : r \in Ranges}

MCSearches ==
  {[filter |-> f, sort |-> None, page |-> None, pageSize |-> 3] : f \in Filterings}
  \cup {[filter |-> Plain, sort |-> s, page |-> n, pageSize |-> z] :
            s \in Sorts \cup {"bad"}, n \in {1, 2}, z \in {1, 2}}
  \cup {[filter |-> Plain, sort |-> None, page |-> n, pageSize |-> z] : n \in {0, 6, 7}, z \in {3, 4}}
MCStatistics ==
  {[filter |-> Plain, groupBy |-> g, top |-> n] : g \in Groupings \cup {"bad"}, n \in {0, 1, 4}}
  \cup {[filter |-> f, groupBy |-> g, top |-> 2] : f \in Filterings, g \in {"tag", "day", "week", "month"}}

Call == [text |-> None, tags |-> <<>>, matchAll |-> FALSE, type |-> None, period |-> None,
         from |-> None, to |-> None, limit |-> None]
Calls ==
  {[Call EXCEPT !.period = n] : n \in DOMAIN Named(Start) \cup {"bad", "custom"}}
  \cup {[Call EXCEPT !.period = n, !.from = r[1], !.to = r[2]] : n \in {None, "today"}, r \in Ranges}
  \cup {[Call EXCEPT !.tags = t, !.matchAll = b] :
            t \in {<<{1}>>, <<{1}, {2}, {5}>>, <<{1}, {3}, {11}>>, <<{1, 3, 11}>>, <<{6}>>}, b \in BOOLEAN}
  \cup {[Call EXCEPT !.text = 6, !.limit = n] : n \in {-1, 0, 9, Bad, NotANumber}}
  \cup {[Call EXCEPT !.type = t] : t \in {AnyType, Bad, 11, 22}}
MCSearchCalls == {c @@ [sort |-> "size_desc"] : c \in Calls} \cup {Call @@ [sort |-> "bad"]}
MCStatsCalls == {c @@ [groupBy |-> g] : c \in Calls, g \in {"tag", "day", "week"}} \cup {Call @@ [groupBy |-> "bad"]}
=============================================================================
