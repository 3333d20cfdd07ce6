\* An endpoint that accepts connections and never answers in TLS.
SPECIFICATION MCSpec
CONSTANTS
  public = public
  private = private
  opted = opted
  Addr = {public, private, opted}
  DenyTable = {private, opted}
  OptedIn = {opted}
  Port = {22, 443}
  PolicyPorts = {443}
  Asked <- MCAsked
  NoAddr = noaddr
  MaxStray = 1
  Trace = {t1}
  Stream = {s1}
  Handler = {h1}
  None = none
  MaxSessions = 1
  MaxSpan = 1
  MaxSize = 4
  InCap = 1
  ByteCap = 2
PROPERTY Answered
CHECK_DEADLOCK FALSE
