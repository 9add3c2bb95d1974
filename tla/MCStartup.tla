------------------------------- MODULE MCStartup -------------------------------
(***************************************************************************)
(* Model checking of Startup: a configuration without a fault, and one for *)
(* each thing that can be wrong with it.                                   *)
(***************************************************************************)
EXTENDS Startup

Plain == [database |-> TRUE, mode |-> "scrape", oauth |-> FALSE, parses |-> TRUE,
          values |-> TRUE, port |-> TRUE]

MCEnvironments ==
    {Plain,
     [Plain EXCEPT !.mode = "auto"],
     [Plain EXCEPT !.mode = "praw"],
     [Plain EXCEPT !.mode = "praw", !.oauth = TRUE],
     [Plain EXCEPT !.mode = "unknown"],
     [Plain EXCEPT !.values = FALSE],
     [Plain EXCEPT !.parses = FALSE],
     [Plain EXCEPT !.port = FALSE],
     [Plain EXCEPT !.database = FALSE]}
===============================================================================
