----------------------------- MODULE MCWorkOrder ------------------------------
(***************************************************************************)
(* Bounded instances of four parts that share no state and are checked     *)
(* side by side: the work order on the server with its calls one after     *)
(* another (WorkOrder), the page that drives it (JobScreen), the screens   *)
(* that edit its job card (JobCardScreens) and the ingest of the stock     *)
(* they book from (StockIngest).  A behaviour is of one part, and the      *)
(* others rest.                                                            *)
(***************************************************************************)
EXTENDS WorkOrder, JobScreen, StockIngest, JobCardScreens, TLC

CONSTANTS wheel, hose, van, store

AnySkew == {-3, -1, 0, 1}
MCHome  == wheel :> van @@ hose :> store

VARIABLE part

\* The server the page rests with while another part is checked.
PageRests == records = NotYet /\ service.row = NoRow

PartsInit ==
  /\ part \in {"order", "page", "screens", "stock"}
  /\ Init /\ ScreenInit /\ CardInit /\ StockInit
  /\ part # "page" => PageRests
PartsNext ==
  /\ UNCHANGED part
  /\ \/ part = "order"   /\ Next       /\ UNCHANGED <<screenVars, cardVars, stockVars>>
     \/ part = "page"    /\ ScreenNext /\ UNCHANGED <<vars, cardVars, stockVars>>
     \/ part = "screens" /\ CardNext   /\ UNCHANGED <<vars, screenVars, stockVars>>
     \/ part = "stock"   /\ StockNext  /\ UNCHANGED <<vars, screenVars, cardVars>>
PartsSpec == PartsInit /\ [][PartsNext]_<<part, vars, screenVars, cardVars, stockVars>>
===============================================================================
