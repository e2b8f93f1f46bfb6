------------------------------- MODULE MCIngest -------------------------------
(* Small instances of Ingest for TLC. *)
EXTENDS Ingest, TLC

CONSTANTS goog, googl, f1, f2

(* Two tickers of one company, which list a filing in common; the second   *)
(* has one of its own, too, that only runs past the first come to.         *)
MCListing == goog :> {f2} @@ googl :> {f1, f2}
MCYears == f1 :> {2023} @@ f2 :> {2023, 2024}
MCLists == {<<goog, googl>>}
=============================================================================
