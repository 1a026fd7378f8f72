------------------------------- MODULE MCServer -------------------------------
(* Server for TLC.  *)
EXTENDS Server, TLC

CONSTANTS s1, s2, shop, admin, guest, page, notes

MCAppLists == {{shop, admin}}

Line(glob, kind, app) == [glob |-> glob, expr |-> [kind |-> kind, app |-> app]]

\* No file; a file whose first rule closes a page that its second one opens; a
\* file with a rule that is not supported.
MCConfigs ==
    {[file |-> "absent", entries |-> <<>>],
     [file |-> "mapping",
      entries |-> <<Line({page}, "human-only", Nil), Line({page, notes}, "producer", shop)>>],
     [file |-> "mapping", entries |-> <<Line({notes}, "consumer", shop)>>]}

Good == [size |-> 1, text |-> "clean", front |-> "complete", secret |-> FALSE]

Write(app, path, content) ==
    [via |-> "call", tool |-> "write", server |-> s1, app |-> app, path |-> path, content |-> content]

MCCalls ==
    {Write(shop, page, Good), Write(admin, page, Good), Write(shop, notes, Good),
     Write(shop, page, [Good EXCEPT !.size = 2]), Write(guest, notes, Good),
     Write(shop, page, [Good EXCEPT !.front = "owners"]),
     [Write(shop, notes, [Good EXCEPT !.size = 2]) EXCEPT !.via = "adapter"],
     [Write(shop, page, Nil) EXCEPT !.tool = "append_log"],
     [Write(shop, page, Nil) EXCEPT !.tool = "append_log", !.server = s2],
     [Write(shop, page, Nil) EXCEPT !.tool = "unknown"],
     [Write(shop, page, Nil) EXCEPT !.tool = "read"],
     [Write(shop, page, Nil) EXCEPT !.via = "subscribe", !.tool = "subscribe"]}
=============================================================================
