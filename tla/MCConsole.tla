----------------------------- MODULE MCConsole ------------------------------
(* Three rows on pages of two, two of them never seen.  The search matches one: what it
   leaves fits on one page, so that a page kept from before the search could lie past the
   end. *)
EXTENDS Console

Row(id, has, seen) == [id |-> id, has |-> has, rank |-> [last_seen |-> seen]]

MCRows == <<Row("d1", {"sensor"}, 1), Row("d2", {}, 0), Row("d3", {}, 0)>>

=============================================================================
