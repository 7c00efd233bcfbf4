---------------------------- MODULE MCPintosMalloc ----------------------------
(* PintosMalloc with three kernel pages, arenas of two small blocks and big *)
(* blocks of two pages: two threads run out of pages.                       *)
EXTENDS PintosMalloc
===============================================================================
