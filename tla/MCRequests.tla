----------------------------- MODULE MCRequests -----------------------------
(* Requests for TLC: frames that are written out.                           *)
EXTENDS Requests, TLC

IdFirst   == <<"request_id", "command">>

Ping      == Request("7", "PING", Nothing)
Sessions  == Request("1", "GET_ACTIVE_SESSIONS", Nothing)
Unheard   == Request("9", "DROP_CASE", Nothing)
OneCase   == Request("42", "GET_CASE_BY_ID", "case_id" :> "some-uuid")
NoCase    == Request("7", "GET_CASE_BY_ID", "case_id" :> "?")
BigLimit  == Request("1", "GET_CASE_LIST", "limit" :> "9999999999" @@ "offset" :> "?")
BigIndex  == Request("9", "GET_AGENT_STATUS_BY_INDEX", "index" :> "9999999999")
NoText    == Malformed("0")

WithParams(request, keys, style) == Text(request, Append(IdFirst, "params"), keys, style)

(* The texts clients send, and the requests they are meant to be.           *)
(* "dashboard" is one that json.dumps writes for dashboard/app.py.          *)
Texted ==
    "ping"      :> Text(Ping, IdFirst, << >>, Style(TRUE, TRUE)) @@
    "dashboard" :> WithParams(Sessions, << >>, Style(TRUE, FALSE)) @@
    "unheard"   :> Text(Unheard, IdFirst, << >>, Compact) @@
    "one case"  :> WithParams(OneCase, <<"case_id">>, Compact) @@
    "no case"   :> WithParams(NoCase, <<"case_id">>, Compact) @@
    "big limit" :> WithParams(BigLimit, <<"limit", "offset">>, Compact) @@
    "big index" :> WithParams(BigIndex, <<"index">>, Compact) @@
    "no JSON"   :> <<Word("hello")>> @@
    "too long"  :> << >>

Author ==
    "ping" :> Ping @@ "dashboard" :> Sessions @@ "unheard" :> Unheard @@ "one case" :> OneCase @@
    "no case" :> NoCase @@ "big limit" :> BigLimit @@ "big index" :> BigIndex @@ "no JSON" :> NoText @@ "too long" :> NoText

(* None, one, or the two of GET_CASE_LIST in either order                   *)
Keys0to2 == {<< >>, <<"case_id">>, <<"index">>, <<"limit", "offset">>, <<"offset", "limit">>}

(* What the theorems about answers assume of frames is true of these.       *)
ASSUME AuthorIsLegible == Legible
=============================================================================
