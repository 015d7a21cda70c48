--------------------------- MODULE MCFilterEditor ----------------------------
(* "h:" stands for "host:", "s:" for "status:", "y:" for "type:", "d:" for    *)
(* "duration:", "p:" for "path:" and "t:" for "tls:"; "w" takes two bytes, as *)
(* does "_", a no-break space. One host is captured with a capital letter, and *)
(* what is captured brings two statuses and two content types.               *)
EXTENDS FilterEditor

Order == <<";", "<", "=", "2", "4", ":", "A", "a", "b", "d", "h", "p", "s", "t", "y", "_", "w">>
Characters == ToSet(Order)
ByteWidths == [c \in Characters |-> IF c \in {"w", "_"} THEN 2 ELSE 1]
CodePoints == [c \in Characters |-> CHOOSE i \in DOMAIN Order : Order[i] = c]
Small == [c \in Characters |-> IF c = "A" THEN "a" ELSE c]
Host == <<"h", ":">>
Status == <<"s", ":">>
Type == <<"y", ":">>
Duration == <<"d", ":">>
FilterKeys == <<Duration, Host, <<"p", ":">>, Status, <<"t", ":">>, Type>>
Values == [k \in {<<"p", ":">>, <<"t", ":">>} |->
  IF k = <<"t", ":">> THEN <<<<"a">>, <<"b">>>> ELSE <<>>]
Comparisons == <<<<"<">>, <<"<", "=">>, <<"=">>>>
Times == <<<<"4">>, <<"2", "s">>>>
Kinds == <<<<"b">>>>
CommonStatuses == <<<<"2">>, <<"4">>>>
Entry(host, status, request_type, response_type) ==
  [host |-> host, status |-> status, request_type |-> request_type,
   response_type |-> response_type]
SomeEntries ==
  {Entry(<<"A", "b">>, <<"2", "4">>, <<"A", ";", "b">>, <<>>),
   Entry(<<"a">>, <<"2">>, <<"_">>, <<"b", "a", "_">>)}
Applied == {<<"w">>, <<"h", ":", "A">>, <<"s", ":", "2", "4">>, <<"y", ":", "A">>, <<"d", ":", "<">>}
=============================================================================
