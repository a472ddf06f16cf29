SPECIFICATION FairSpec
CONSTANTS
  Bus = {b0, b1, b2}
  Zero = b0
  Torn = torn
PROPERTIES
  ImplementsFairMailbox
  RequestAcknowledged
