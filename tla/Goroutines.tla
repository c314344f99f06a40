------------------------------ MODULE Goroutines ------------------------------
(* What the models of the proxies and of the credential stores share: the    *)
(* handler goroutines that call them, and the value of an empty field.       *)

CONSTANTS Requests,  \* handler goroutines of the ssh and mcp proxies
          Callers,   \* handler goroutines of the others
          None       \* nil, or no owner
=============================================================================
