------------------------------ MODULE Services ------------------------------
(***************************************************************************)
(* The services of the federation run as goroutines of their own over      *)
(* state of their own.  Where they are checked side by side a behaviour    *)
(* moves one of them, and the fairness of a service's goroutines is        *)
(* claimed in the behaviours that move it.                                 *)
(***************************************************************************)
VARIABLE service  \* the service that moves

Moves(s) == service = s
=============================================================================
