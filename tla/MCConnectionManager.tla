------------------------- MODULE MCConnectionManager -------------------------
(* Two topics, of which the one filter lets one pass. *)
EXTENDS ConnectionManager

CONSTANTS t1, t2

MCTopics  == {t1, t2}
MCFilters == {{t1}}
=============================================================================
