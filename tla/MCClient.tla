-------------------------------- MODULE MCClient --------------------------------
EXTENDS Client

AllFoci == {"sockets", "delivery", "reading", "writing", "ringing", "entering",
            "copy", "shell", "updating", "push"}

=============================================================================
