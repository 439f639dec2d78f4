------------------------------ MODULE MCFlint ------------------------------
(***************************************************************************)
(* The libraries with no concurrency of their own: the three of the Flint  *)
(* TCB, the PTP clock and its calendar, and the JSON writer.  They share   *)
(* nothing, so that each behaviour exercises one of them, chosen at the    *)
(* start.                                                                  *)
(***************************************************************************)
EXTENDS Cap, PrioBitmap, MsgTag, PtpClock, Json

VARIABLE subject    \* the library exercised

MCCaps(type, rights, badge) ==
  [type |-> type, rights |-> rights, badge |-> badge, object |-> 1, parent |-> NO_PARENT]

MCBootCaps == {MCCaps("endpoint", {"read", "grant"}, 0), MCCaps("untyped", {"read"}, 0)}

MCPrios == {0, 1, 2, 15, 16, 23, 31, 32, 100, 127, 254, 255}

MCStrings == {<<>>, <<"\"">>, <<"\\", "ctl">>}

MCPpbs == {-9, -3, 2, 9}
MCDeltas == {-7, 5}

tag   == <<out_tag, packed>>
clock == <<clk, cnt, anchors>>
date  == <<utc, wall>>
json  == <<w, todo, reader>>

Init ==
  /\ subject \in {"cap", "bitmap", "tag", "clock", "date", "json"}
  /\ CapInit /\ BitmapInit /\ TagInit /\ ClockInit
  /\ DateInit /\ (subject # "date" => utc = 0)
  /\ JsonInit /\ (subject # "json" =>
                    /\ \A cap \in BufSizes : w.cap <= cap
                    /\ todo.calls = set_reply_simple(<<>>) /\ todo.fallback = <<>>)

Next ==
  /\ UNCHANGED subject
  /\ \/ subject = "cap" /\ CapNext /\ UNCHANGED <<bitmap, tag, clock, date, json>>
     \/ subject = "bitmap" /\ BitmapNext /\ UNCHANGED <<cspace, tag, clock, date, json>>
     \/ subject = "tag" /\ TagNext /\ UNCHANGED <<cspace, bitmap, clock, date, json>>
     \/ subject = "clock" /\ ClockNext /\ UNCHANGED <<cspace, bitmap, tag, date, json>>
     \/ subject = "date" /\ DateNext /\ UNCHANGED <<cspace, bitmap, tag, clock, json>>
     \/ subject = "json" /\ JsonNext /\ UNCHANGED <<cspace, bitmap, tag, clock, date>>

Spec == Init /\ [][Next]_<<subject, cspace, bitmap, tag, clock, date, json>>
==============================================================================
