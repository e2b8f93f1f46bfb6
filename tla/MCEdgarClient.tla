--------------------------- MODULE MCEdgarClient ---------------------------
(* A small instance of EdgarClient for TLC. *)
EXTENDS EdgarClient

CONSTANTS t1, t2

MCBackoff == <<3, 3>>

(* Year ends before, on and after the last day of the month; reports with  *)
(* and without a period; year ends EDGAR has and has not on record.        *)
MCCompanies ==
  [year : {2024}, month : {2}, early : {-3, 0}, long : {FALSE},
   onRecord : {TRUE}, undated : {{}, 1..4}, lag : {40}]
    \cup [year : {2025}, month : {1, 12}, early : {20}, long : {TRUE},
          onRecord : {TRUE}, undated : {{2}}, lag : {40}]
    \cup [year : {2025}, month : {9, 12}, early : {0}, long : {FALSE},
          onRecord : {FALSE}, undated : {{}}, lag : {40}]
=============================================================================
