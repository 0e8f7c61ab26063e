SPECIFICATION ServerSpec
PROPERTY SignalIsRead
