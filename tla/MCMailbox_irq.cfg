SPECIFICATION FairSpec
CONSTANTS
  c1 = c1 c2 = c2 t1 = t1 t2 = t2 m1 = m1 m2 = m2 m3 = m3 m4 = m4
  NULL = NULL Irq = Irq Driver = Driver
  Clients = {c1}
  Threads = {t1, t2}
  ClientOf <- OneClient
  Msgs = {m1, m2, m3}
  MBOX_TX_QUEUE_LEN = 2
  TxDone = "irq"
  KnowsTxdone = {}
  CanFlush = TRUE
  MaxInFlight = 2
INVARIANTS MessageKeptOnce 
PROPERTIES ImplementsFifo EveryMessageNotified
