------------------------------- MODULE BrowserTab -------------------------------
(* What the parts of a browser tab share. *)

CONSTANTS
    Instances,   \* Live instances of the catalog, each with a kernel of its own
    None         \* no instance, kernel, command, filter, view

ASSUME NoInstanceAssumption == None \notin Instances
=============================================================================
