------------------------------ MODULE Toolkit -------------------------------
(***************************************************************************)
(* The parts of the library that keep their state to themselves, and the   *)
(* framework its tests are written in.  No part calls another one through  *)
(* state modelled here, so each is explored by itself, from all its        *)
(* initial states, while the others rest in one of theirs.                 *)
(***************************************************************************)
EXTENDS DynabufReadStream, HttpHeaders, StaticString, Codecs, UnitTest, TestStreams

VARIABLE part   \* the part that is used

toolvars == <<part, svars, lvars, hvars, strvars, cvars, tvars, tsvars>>

Parts == {"buffers", "lists", "headers", "string", "codecs", "tests", "streams"}

ToolkitInit ==
  /\ part \in Parts
  /\ ListInit /\ StringInit
  /\ HeadersInit /\ (part # "headers" => hs[2].alloc = hs[1].alloc)
  /\ CodecsInit /\ (part # "codecs" => codec = "sha1")
  /\ TestsInit /\ (part # "tests" => sel.asked = "each")
  /\ StreamsInit /\ (part # "streams" => loop.script = CHOOSE sc \in Scripts : TRUE)
  /\ StreamInit /\ (part # "buffers" => kind = "static" /\ capacity = Min(Capacities)
                                         /\ SsEnd(buf) = Min(StaticSizes))

ToolkitNext ==
  /\ UNCHANGED part
  /\ \/ /\ part = "buffers" /\ StreamNext
        /\ UNCHANGED <<lvars, hvars, strvars, cvars, tvars, tsvars>>
     \/ /\ part = "lists" /\ ListNext
        /\ UNCHANGED <<svars, hvars, strvars, cvars, tvars, tsvars>>
     \/ /\ part = "headers" /\ HeadersNext
        /\ UNCHANGED <<svars, lvars, strvars, cvars, tvars, tsvars>>
     \/ /\ part = "string" /\ StringNext
        /\ UNCHANGED <<svars, lvars, hvars, cvars, tvars, tsvars>>
     \/ /\ part = "codecs" /\ CodecsNext
        /\ UNCHANGED <<svars, lvars, hvars, strvars, tvars, tsvars>>
     \/ /\ part = "tests" /\ TestsNext
        /\ UNCHANGED <<svars, lvars, hvars, strvars, cvars, tsvars>>
     \/ /\ part = "streams" /\ StreamsNext
        /\ UNCHANGED <<svars, lvars, hvars, strvars, cvars, tvars>>

ToolkitSpec == ToolkitInit /\ [][ToolkitNext]_toolvars

=============================================================================
