------------------------------ MODULE Errgroup ------------------------------
(***************************************************************************)
(* golang.org/x/sync/errgroup as proxy, record and replay use it:          *)
(*   eg, egCtx := errgroup.WithContext(ctx); eg.Go(f) ...; eg.Wait()       *)
(* The library is not part of the repository, so this module is modelled   *)
(* from its contract: the first goroutine that returns a non-nil error     *)
(* cancels egCtx, cancelling the parent ctx cancels egCtx too, and         *)
(* eg.Wait returns that first error once every goroutine has returned.     *)
(***************************************************************************)

VARIABLES
    alive,      \* goroutines started by eg.Go that have not returned
    firstErr,   \* the goroutine whose error eg.Wait will report, or NoErr
    cancelled,  \* egCtx.Done() is closed
    parentDone  \* the caller's ctx has been cancelled (signal or mgr.Cancel)

groupVars == <<alive, firstErr, cancelled, parentDone>>

NoErr == "nil"

GroupInit(goroutines) ==
    /\ alive = goroutines
    /\ firstErr = NoErr
    /\ cancelled = FALSE
    /\ parentDone = FALSE

\* Goroutine g returns nil: eg.Wait keeps waiting for the others.
Return(g) ==
    /\ alive' = alive \ {g}
    /\ UNCHANGED <<firstErr, cancelled, parentDone>>

\* Goroutine g returns an error: only the first one is kept, and it cancels.
Fail(g) ==
    /\ alive' = alive \ {g}
    /\ firstErr' = IF firstErr = NoErr THEN g ELSE firstErr
    /\ cancelled' = TRUE
    /\ UNCHANGED parentDone

\* The caller cancels the context it handed to RunCtx.
ParentCancel ==
    /\ ~parentDone
    /\ parentDone' = TRUE
    /\ cancelled' = TRUE
    /\ UNCHANGED <<alive, firstErr>>

\* eg.Wait has returned.
Returned == alive = {}
=============================================================================
