----------------------------- MODULE MCNotifier -----------------------------
(* Three threads, each free to get and to put, and two parcels: enough for *)
(* a getter and a putter to wait while a third thread is served.           *)
EXTENDS Notifier
CONSTANTS t1, t2, t3, request, killer

MCThread == {t1, t2, t3}
MCParcel == {request, killer}
=============================================================================
